---- MODULE Spec2Model ----
(***************************************************************************)
(* Model of the agro-report bot: the RPC gateway (utils.send_and_receive), *)
(* the worker pool (worker.handle_message / start_worker) and the          *)
(* extraction pipeline (report_builder.ReportBuilder).                     *)
(*                                                                         *)
(* Cyrillic literals of the source are written in Latin transliteration:   *)
(*   "Ne opredeleno"  = the unresolved sentinel,                           *)
(*   "Data", "Operaciya", "Dannye", ... = the record keys.                 *)
(***************************************************************************)
EXTENDS Naturals, Integers, Sequences, FiniteSets, TLC

(***************************************************************************)
(* Bounds of the model.                                                    *)
(***************************************************************************)
\* number of submissions (one Gateway instance, i.e. one send_and_receive call, each)
NumGateways == 2
\* number of foreign messages the environment may put on reply queues
MaxStray == 1
\* number of Worker process kills the environment may perform
MaxKills == 1
\* number of submissions made while the environment injects faults
MaxFaultJobs == 1
\* number of build calls of the builder of one Worker process
MaxBuilds == 1

Gateways == 1..NumGateways
\* worker.py:19-34, the keys of `workers`
Workers == {"worker_v1", "worker_v2"}

(***************************************************************************)
(* Python values: a value is tagged with its Python type; a str keeps its  *)
(* text in s, an int its number in n, a list its elements in items, and a  *)
(* dict its key/value pairs in items, in insertion order.                  *)
(***************************************************************************)
PyNone == [type |-> "NoneType", s |-> "", n |-> 0, items |-> <<>>]
PyStr(text) == [type |-> "str", s |-> text, n |-> 0, items |-> <<>>]
PyInt(number) == [type |-> "int", s |-> "", n |-> number, items |-> <<>>]
PyList(elements) == [type |-> "list", s |-> "", n |-> 0, items |-> elements]
PyDict(pairs) == [type |-> "dict", s |-> "", n |-> 0, items |-> pairs]
Item(k, v) == [key |-> k, value |-> v]

\* Python's == on these values
PyEq(a, b) == a = b

\* report_builder.py:24
ERROR_TEXT == PyStr("Vash otchyot ne mozhet byt obrabotan")

(***************************************************************************)
(* json.dumps / json.loads on the values above: a JSON document is a tree  *)
(* of JSON values; str <-> string, int <-> number, list <-> array,         *)
(* dict <-> object (members in order), None <-> null.                      *)
(***************************************************************************)
JsonNull == [json |-> "null", s |-> "", n |-> 0, items |-> <<>>]

RECURSIVE json_dumps(_)
json_dumps(v) ==
    CASE v.type = "str" -> [json |-> "string", s |-> v.s, n |-> 0, items |-> <<>>]
      [] v.type = "int" -> [json |-> "number", s |-> "", n |-> v.n, items |-> <<>>]
      [] v.type = "list" ->
            [json |-> "array", s |-> "", n |-> 0,
             items |-> [i \in DOMAIN v.items |-> json_dumps(v.items[i])]]
      [] v.type = "dict" ->
            [json |-> "object", s |-> "", n |-> 0,
             items |-> [i \in DOMAIN v.items |->
                          Item(v.items[i].key, json_dumps(v.items[i].value))]]
      [] OTHER -> JsonNull

RECURSIVE json_loads(_)
json_loads(j) ==
    CASE j.json = "string" -> PyStr(j.s)
      [] j.json = "number" -> PyInt(j.n)
      [] j.json = "array" -> PyList([i \in DOMAIN j.items |-> json_loads(j.items[i])])
      [] j.json = "object" ->
            PyDict([i \in DOMAIN j.items |->
                      Item(j.items[i].key, json_loads(j.items[i].value))])
      [] OTHER -> PyNone

\* str.encode('utf-8') / bytes.decode('utf-8')
encode(text) == [utf8 |-> text]
decode(body) == body.utf8

(***************************************************************************)
(* The values ReportBuilder.build can hand to the Worker: a list of        *)
(* records, or ERROR_TEXT; or it raises.                                   *)
(***************************************************************************)
RecordResolved ==
    PyDict(<<Item("Data", PyStr("01.05.2024")), Item("Operaciya", PyStr("Sev")),
             Item("Dannye", PyStr("fragment")), Item("Za den, ga", PyInt(10)),
             Item("S nachala operacii, ga", PyInt(20)), Item("Val za den, c", PyInt(300)),
             Item("Val s nachala, c", PyInt(600))>>)
RecordUnresolved ==
    PyDict(<<Item("Data", PyStr("01.05.2024")), Item("Operaciya", PyStr("Ne opredeleno")),
             Item("Dannye", PyStr("fragment")), Item("Za den, ga", PyInt(10)),
             Item("S nachala operacii, ga", PyInt(20)), Item("Val za den, c", PyInt(300)),
             Item("Val s nachala, c", PyInt(600))>>)

BuildValues == {ERROR_TEXT, PyList(<<RecordResolved, RecordUnresolved>>)}

\* the outcomes of one call builder.build(query_text), worker.py:53
BuildOutcomes ==
    {[kind |-> "return", value |-> v] : v \in BuildValues}
        \cup {[kind |-> "raise", value |-> PyNone]}

\* the texts a submission may carry
Texts == {"report"}

(***************************************************************************)
(* Texts of the inference backend.  A text is a JSON document (the tree    *)
(* json_dumps builds), a JSON document inside a Markdown code fence, or     *)
(* prose.  A Python str that holds a text holds its name: Content gives    *)
(* the text of a name, and a str that names no document is its own prose.  *)
(***************************************************************************)
\* report_builder.py:105
RefusalPhrase == "Otchyot ne mozhet byt obrabotan."
\* report_builder.py:48, 55, 62
Sentinel == "Ne opredeleno"

Prose(text) == [json |-> "prose", s |-> text, n |-> 0, items |-> <<>>]
Fenced(document) == [json |-> "fenced", s |-> "", n |-> 0, items |-> <<document>>]

\* the items of a record as stage 1 is asked to produce it
Entry(date, operation) ==
    <<Item("Data", PyStr(date)), Item("Operaciya", PyStr(operation)),
      Item("Dannye", PyStr("fragment"))>>
Hectares == <<Item("Za den, ga", PyInt(10)), Item("S nachala operacii, ga", PyInt(20))>>
Yield == <<Item("Val za den, c", PyInt(300)), Item("Val s nachala, c", PyInt(600))>>
Enriched(division) ==
    Entry("01.05.2024", "Uborka") \o <<Item("Podrazdelenie", PyStr(division))>> \o Hectares

Documents ==
    {"two_records", "one_record", "null_culture", "bad_operation", "undated",
     "no_records", "enriched", "no_yield", "bad_division",
     "repaired", "repaired_no_yield", "repaired_iso", "repaired_strings"}

Content(name) ==
    CASE name = "two_records" ->
            json_dumps(PyList(<<
                PyDict(Entry("2024-05-01", "Sev") \o <<Item("Kultura", PyStr("Pshenica"))>>),
                PyDict(Entry("02.05.2024", Sentinel))>>))
      [] name = "one_record" ->
            Fenced(json_dumps(PyList(<<PyDict(Entry("2024-05-01", "Uborka"))>>)))
      [] name = "null_culture" ->
            json_dumps(PyList(<<
                PyDict(Entry("2024-05-01", "Uborka") \o <<Item("Kultura", PyNone)>>)>>))
      [] name = "bad_operation" ->
            json_dumps(PyList(<<PyDict(Entry("2024-05-01", "Pahota"))>>))
      [] name = "undated" ->
            json_dumps(PyList(<<PyDict(Tail(Entry("2024-05-01", "Sev")))>>))
      [] name = "no_records" -> json_dumps(PyList(<<>>))
      [] name = "enriched" -> Fenced(json_dumps(PyDict(Enriched("AOR") \o Yield)))
      [] name = "no_yield" -> json_dumps(PyDict(Enriched("AOR")))
      [] name = "bad_division" -> json_dumps(PyDict(Enriched("Mars") \o Yield))
      [] name = "repaired" -> json_dumps(PyList(<<PyDict(Enriched("AOR") \o Yield)>>))
      [] name = "repaired_no_yield" -> json_dumps(PyList(<<PyDict(Enriched("AOR"))>>))
      [] name = "repaired_iso" ->
            json_dumps(PyList(<<PyDict(Entry("2024-05-01", "Uborka"))>>))
      [] name = "repaired_strings" -> json_dumps(PyList(<<PyStr("no_yield")>>))
      [] OTHER -> Prose(name)

\* the texts chat.complete may answer to each kind of predict call
Outputs(call) ==
    CASE call = "initial" ->
            {"two_records", "one_record", "null_culture", "bad_operation", "undated",
             "no_records", "not json", RefusalPhrase}
      [] call = "enrich" ->
            {"enriched", "no_yield", "bad_division", "not json", RefusalPhrase}
      [] OTHER ->
            {"repaired", "repaired_no_yield", "repaired_iso", "repaired_strings",
             "null_culture", "bad_operation", "not json"}

\* utils.py:274-283 on a text: the code fence is removed
clean_string(text) == IF text.json = "fenced" THEN text.items[1] ELSE text

\* report_builder.py:105, `"..." in cleaned`
RECURSIVE ContainsRefusal(_)
ContainsRefusal(text) ==
    CASE text.json = "prose" -> text.s = RefusalPhrase
      [] text.json = "string" ->
            IF text.s \in Documents THEN ContainsRefusal(Content(text.s))
                                    ELSE text.s = RefusalPhrase
      [] text.json = "fenced" -> ContainsRefusal(text.items[1])
      [] text.json = "array" -> \E i \in DOMAIN text.items : ContainsRefusal(text.items[i])
      [] text.json = "object" ->
            \E i \in DOMAIN text.items : ContainsRefusal(text.items[i].value)
      [] OTHER -> FALSE

\* report_builder.py:108, 111: json.loads raises JSONDecodeError
JSONDecodeError(text) == text.json \in {"prose", "fenced"}

\* report_builder.py:126, 132: ast.literal_eval raises (SyntaxError on text
\* that is no Python literal, ValueError on the JSON name null)
RECURSIVE HasNull(_)
HasNull(text) ==
    CASE text.json = "null" -> TRUE
      [] text.json = "array" -> \E i \in DOMAIN text.items : HasNull(text.items[i])
      [] text.json = "object" -> \E i \in DOMAIN text.items : HasNull(text.items[i].value)
      [] OTHER -> FALSE
literal_eval_raises(text) == text.json \in {"prose", "fenced"} \/ HasNull(text)
\* the value of a text that is a Python literal: the one json.loads gives
literal_eval(text) == json_loads(text)

(***************************************************************************)
(* OperationEntry / OperationList, report_builder.py:28-69.                *)
(***************************************************************************)
\* utils.py:212-216: the vocabulary load_entities reads at import
LoadedEntities ==
    [type |-> <<"Sev", "Uborka">>, culture |-> <<"Pshenica">>, division |-> <<"AOR">>]

Has(d, k) == \E i \in DOMAIN d.items : d.items[i].key = k
Get(d, k) == d.items[CHOOSE i \in DOMAIN d.items : d.items[i].key = k].value
InList(v, list) == \E i \in DOMAIN list : list[i] = v

\* the mutant tests the value against the list as it is before the append
validate_operation_before(v, list) == InList(v.s, list)
\* report_builder.py:45-51
validate_operation(v, list) == InList(v.s, Append(list, Sentinel))
\* report_builder.py:53-58: a falsy value (None, "") passes
validate_culture(v, list) ==
    v.type = "NoneType" \/ v.s = "" \/ InList(v.s, Append(list, Sentinel))
\* report_builder.py:60-65
validate_division(v, list) ==
    v.type = "NoneType" \/ v.s = "" \/ InList(v.s, Append(list, Sentinel))

\* the fields of OperationEntry in declaration order, and the key each is
\* read from
Fields ==
    <<"Data", "Operaciya", "Dannye", "Podrazdelenie", "Kultura",
      "Za_den_ga", "S_nachala_operacii_ga", "Val_za_den_c", "Val_s_nachala_c">>
NumericFields == <<"Za_den_ga", "S_nachala_operacii_ga", "Val_za_den_c", "Val_s_nachala_c">>
NumericAliases == <<"Za den, ga", "S nachala operacii, ga", "Val za den, c", "Val s nachala, c">>
Alias(field) ==
    IF \E i \in DOMAIN NumericFields : NumericFields[i] = field
       THEN NumericAliases[CHOOSE i \in DOMAIN NumericFields : NumericFields[i] = field]
       ELSE field

\* OperationEntry.model_validate accepts d
OperationEntry_valid(d, entities) ==
    /\ d.type = "dict"
    /\ \A k \in {"Data", "Operaciya", "Dannye"} : Has(d, k) /\ Get(d, k).type = "str"
    /\ validate_operation(Get(d, "Operaciya"), entities.type)
    /\ Has(d, "Kultura") =>
          /\ Get(d, "Kultura").type \in {"str", "NoneType"}
          /\ validate_culture(Get(d, "Kultura"), entities.culture)
    /\ Has(d, "Podrazdelenie") =>
          /\ Get(d, "Podrazdelenie").type \in {"str", "NoneType"}
          /\ validate_division(Get(d, "Podrazdelenie"), entities.division)
    /\ \A i \in DOMAIN NumericAliases :
          Has(d, NumericAliases[i]) =>
             Get(d, NumericAliases[i]).type \in {"int", "str", "NoneType"}

\* report_builder.py:68: OperationList.model_validate accepts v
OperationList_valid(v, entities) ==
    /\ v.type = "list"
    /\ \A i \in DOMAIN v.items : OperationEntry_valid(v.items[i], entities)

\* a field validator runs on a provided value of the field's type
ValidatorRuns(d, k, types) == d.type = "dict" /\ Has(d, k) /\ Get(d, k).type \in types
Sentinels(count) == [i \in 1..count |-> Sentinel]
Runs(v, k, types) ==
    Cardinality({i \in DOMAIN v.items : ValidatorRuns(v.items[i], k, types)})

\* report_builder.py:48, 55, 62: allowed_entities after model_validate(v):
\* every run of a validator appends the sentinel to its list
Validated(entities, v) ==
    IF v.type # "list" THEN entities
    ELSE [type |-> entities.type \o Sentinels(Runs(v, "Operaciya", {"str"})),
          culture |-> entities.culture
                         \o Sentinels(Runs(v, "Kultura", {"str", "NoneType"})),
          division |-> entities.division
                         \o Sentinels(Runs(v, "Podrazdelenie", {"str", "NoneType"}))]

\* model_dump(exclude_none=True) of an accepted record: the fields that hold
\* a value, under their field names
Present(d, field) == Has(d, Alias(field)) /\ Get(d, Alias(field)).type # "NoneType"
Kept(d) == SelectSeq(Fields, LAMBDA field : Present(d, field))
entry_dump(d) == PyDict([i \in DOMAIN Kept(d) |-> Item(Kept(d)[i], Get(d, Alias(Kept(d)[i])))])
model_dump(v) == PyList([i \in DOMAIN v.items |-> entry_dump(v.items[i])])

(***************************************************************************)
(* ReportBuilder._validate, report_builder.py:101-138.                     *)
(***************************************************************************)
\* datetime.fromisoformat accepts the string
IsoDates == {"2024-05-01"}
\* strftime("%d.%m.%Y") of the parsed date
strftime(date) == IF date = "2024-05-01" THEN "01.05.2024" ELSE date

\* report_builder.py:114-119 raises something other than ValueError: the item
\* is no dict or has no "Data" key (TypeError, KeyError), or the date is no
\* str (TypeError)
DateLoopRaises(parsed) ==
    CASE parsed.type = "list" ->
            \E i \in DOMAIN parsed.items :
               \/ parsed.items[i].type # "dict"
               \/ ~Has(parsed.items[i], "Data")
               \/ Get(parsed.items[i], "Data").type # "str"
      [] parsed.type = "dict" -> parsed.items # <<>>
      [] parsed.type = "str" -> parsed.s # ""
      [] OTHER -> TRUE

\* report_builder.py:116-117 on one record
Reformatted(d) ==
    PyDict([i \in DOMAIN d.items |->
              IF d.items[i].key = "Data" /\ d.items[i].value.s \in IsoDates
                 THEN Item("Data", PyStr(strftime(d.items[i].value.s)))
                 ELSE d.items[i]])

Outcome(status, value, entities) ==
    [status |-> status, value |-> value, entities |-> entities]

\* report_builder.py:102-121: the try block on the text of a stage
FirstPass(reports, entities) ==
    LET cleaned == clean_string(reports)
        parsed == json_loads(cleaned)
        strings == IF parsed.type = "list"
                      THEN {i \in DOMAIN parsed.items : parsed.items[i].type = "str"}
                      ELSE {}
        item_text(i) == clean_string(Content(parsed.items[i].s))
        reparsed == IF parsed.type = "list"
                       THEN PyList([i \in DOMAIN parsed.items |->
                                      IF i \in strings THEN json_loads(item_text(i))
                                                       ELSE parsed.items[i]])
                       ELSE parsed
        dated == IF reparsed.type = "list"
                    THEN PyList([i \in DOMAIN reparsed.items |->
                                   Reformatted(reparsed.items[i])])
                    ELSE reparsed
    IN  IF ContainsRefusal(cleaned) THEN Outcome("ValueError", PyNone, entities)
        ELSE IF JSONDecodeError(cleaned) \/ \E i \in strings : JSONDecodeError(item_text(i))
           THEN Outcome("JSONDecodeError", PyNone, entities)
        ELSE IF DateLoopRaises(reparsed) THEN Outcome("TypeError", PyNone, entities)
        ELSE IF ~OperationList_valid(dated, entities)
           THEN Outcome("ValidationError", PyNone, Validated(entities, dated))
        ELSE Outcome("ok", model_dump(dated), Validated(entities, dated))

\* report_builder.py:125-127, 131-133: the statement of an except clause on
\* the text the repair call returned
SecondPass(correction, entities) ==
    LET cleaned == clean_string(correction)
        value == literal_eval(cleaned)
    IN  IF literal_eval_raises(cleaned) THEN Outcome("SyntaxError", PyNone, entities)
        ELSE IF ~OperationList_valid(value, entities)
           THEN Outcome("ValidationError", PyNone, Validated(entities, value))
        ELSE Outcome("ok", model_dump(value), Validated(entities, value))

(***************************************************************************)
(* ReportBuilder.build, report_builder.py:165-189, as steps of one call:   *)
(* the call runs until it issues a backend request, and goes on when the   *)
(* request returns or fails.  A state st of the call is the record         *)
(* [builder, allowed_entities].                                            *)
(***************************************************************************)
NoOutcome == [kind |-> "none", value |-> PyNone, exc |-> ""]

IdleBuilder ==
    [pc |-> "idle",             \* "idle", "request" (inside chat.complete), "done"
     call |-> "none",           \* the predict call in progress
     attempt |-> 0,             \* the backend requests of the predict call in progress
     failures |-> <<>>,         \* history: what the requests of the last predict call raised
     backoffs |-> 0,            \* history: the 60 s sleeps of the last predict call
     stage |-> 0,               \* 1, 2: the stage in progress; 3: the renaming
     stage_one |-> PyNone,      \* the validated result of stage 1
     result |-> PyNone,         \* the validated result of stage 2
     reports |-> <<>>,          \* _gather_raw_results: reports
     calls |-> <<>>,            \* history: the enrich calls, [report, raw] each
     initial |-> <<>>,          \* history: the text stage 1 handed to _validate
     merged |-> <<>>,           \* history: the text stage 2 handed to _validate
     correction |-> <<"", "">>, \* history: the text the repair call returned, per stage
     predicts |-> 0,            \* history: predict calls
     requests |-> 0,            \* history: backend requests
     status |-> <<"", "">>,     \* history: how the try block of _validate ended, per stage
     repaired |-> <<"", "">>,   \* history: how the except clause of _validate ended
     json_fixes |-> <<0, 0>>,   \* history: _correct_json calls, per stage
     field_fixes |-> <<0, 0>>,  \* history: _correct_fields calls, per stage
     outcome |-> NoOutcome]     \* how build ended

\* utils.py:146-182: predict is called and makes its first request
Call(st, kind) ==
    [st EXCEPT !.builder.pc = "request", !.builder.call = kind, !.builder.attempt = 1,
               !.builder.failures = <<>>, !.builder.backoffs = 0,
               !.builder.predicts = @ + 1, !.builder.requests = @ + 1]

\* an exception leaves build
Raise(st, exc) ==
    [st EXCEPT !.builder.pc = "done", !.builder.call = "none", !.builder.attempt = 0,
               !.builder.outcome = [kind |-> "raise", value |-> PyNone, exc |-> exc]]

\* build returns v
Return(st, v) ==
    [st EXCEPT !.builder.pc = "done", !.builder.call = "none", !.builder.attempt = 0,
               !.builder.outcome = [kind |-> "return", value |-> v, exc |-> ""]]

\* report_builder.py:188-189
RenameFailedRaises(st) == Raise(st, "KeyError")
RenameFailed(st) == Return(st, ERROR_TEXT)

\* report_builder.py:182-185 on one record: the four values move to the end,
\* under their display names
HasNumeric(item) == \A i \in DOMAIN NumericFields : Has(item, NumericFields[i])
IsNumericField(k) == \E i \in DOMAIN NumericFields : NumericFields[i] = k
\* the mutant leaves the values under the field names as well
RenamedKept(item) ==
    PyDict(item.items \o [i \in DOMAIN NumericFields |->
                            Item(NumericAliases[i], Get(item, NumericFields[i]))])
Renamed(item) ==
    PyDict(SelectSeq(item.items, LAMBDA pair : ~IsNumericField(pair.key))
             \o [i \in DOMAIN NumericFields |->
                   Item(NumericAliases[i], Get(item, NumericFields[i]))])

\* report_builder.py:180-189
rename(st) ==
    LET result == st.builder.result IN
        IF \A i \in DOMAIN result.items : HasNumeric(result.items[i])
           THEN Return(st, PyList([i \in DOMAIN result.items |-> Renamed(result.items[i])]))
           ELSE RenameFailed(st)

\* report_builder.py:142-143: the loop of _gather_raw_results calls predict
\* with the next record of report_data; the mutant asks for the first again
EnrichFirst(st) ==
    Call([st EXCEPT !.builder.calls =
                       Append(@, [report |-> st.builder.stage_one.items[1], raw |-> ""])],
         "enrich")
Enrich(st) ==
    Call([st EXCEPT !.builder.calls =
                       Append(@, [report |-> st.builder.stage_one.items[Len(st.builder.reports) + 1],
                                  raw |-> ""])],
         "enrich")

\* report_builder.py:161-163: json.dumps(reports, ...), an array of strings
dumps_reports(reports) == json_dumps(PyList([i \in DOMAIN reports |-> PyStr(reports[i])]))

RECURSIVE _validate(_, _)
RECURSIVE _process_stage_return(_, _)

\* report_builder.py:176-178, 140-145, 159-163: _process_stage returns value;
\* after stage 1 the loop of build enters stage 2, which gathers one raw
\* result per record and validates their JSON array; after stage 2 the
\* renaming follows
_process_stage_return(st, value) ==
    IF st.builder.stage = 1
       THEN LET next == [st EXCEPT !.builder.stage = 2, !.builder.stage_one = value,
                                   !.builder.reports = <<>>]
            IN  IF value.items = <<>>
                   THEN _validate([next EXCEPT !.builder.merged = <<dumps_reports(<<>>)>>],
                                  dumps_reports(<<>>))
                   ELSE Enrich(next)
       ELSE rename([st EXCEPT !.builder.stage = 3, !.builder.result = value])

\* report_builder.py:101-138: _validate up to its return, its raise, or its
\* repair call
_validate(st, reports) ==
    LET r == FirstPass(reports, st.allowed_entities)
        k == st.builder.stage
        after == [st EXCEPT !.allowed_entities = r.entities, !.builder.status[k] = r.status]
    IN  CASE r.status = "ok" -> _process_stage_return(after, r.value)
          [] r.status = "ValidationError" ->
                Call([after EXCEPT !.builder.field_fixes[k] = @ + 1], "fix_fields")
          [] r.status = "JSONDecodeError" ->
                Call([after EXCEPT !.builder.json_fixes[k] = @ + 1], "fix_json")
          [] OTHER -> Raise(after, r.status)

\* the repair call returned text and _validate is entered again on it
_validate_again(st, correction) == _validate(st, correction)

\* report_builder.py:124-127, 130-133: the repair call returned; an exception
\* raised inside an except clause leaves _validate, and build
_validate_repaired(st, correction) ==
    LET r == SecondPass(correction, st.allowed_entities)
        k == st.builder.stage
        after == [st EXCEPT !.allowed_entities = r.entities,
                            !.builder.repaired[k] = r.status]
    IN  IF r.status = "ok" THEN _process_stage_return(after, r.value)
                           ELSE Raise(after, r.status)

\* predict returned the text named prediction to its caller
predict_return(st, prediction) ==
    LET b == st.builder IN
        CASE b.call = "initial" ->
                _validate([st EXCEPT !.builder.initial = <<Content(prediction)>>],
                          Content(prediction))
          [] b.call = "enrich" ->
                LET reports == Append(b.reports, prediction)
                    next == [st EXCEPT !.builder.reports = reports,
                                       !.builder.calls[Len(b.calls)].raw = prediction]
                IN  IF Len(reports) < Len(b.stage_one.items)
                       THEN Enrich(next)
                       ELSE _validate([next EXCEPT !.builder.merged = <<dumps_reports(reports)>>],
                                      dumps_reports(reports))
          [] OTHER ->
                _validate_repaired([st EXCEPT !.builder.correction[b.stage] = prediction],
                                   Content(prediction))

\* utils.py:183: the except clause that retries is entered from the try
\* block only, that is after the first request
\* what chat.complete may raise: SDKError, which the client raises for an
\* error status of the API (429 when the rate limit is exceeded, any other
\* 4xx or 5xx as well), and the exceptions of the transport
Failures == {"SDKError 429", "SDKError 500", "ConnectionError"}
IsSDKError(failure) == failure \in {"SDKError 429", "SDKError 500"}
IsRateLimit(failure) == failure = "SDKError 429"

RetriesAlways(b) == TRUE
RetriesOnce(b) == b.attempt = 1



(***************************************************************************)
(* AgroReportTelegramBot: the values it works on, telegram_bot.py and      *)
(* db/interaction.py.                                                      *)
(***************************************************************************)
\* telegram_bot.py:191, 316
Harvest == "Uborka"

\* a float: the number mantissa * 10^exponent, exponent one of "e0", "e-2", "e-4"
PyFloat(mantissa, exponent) == [type |-> "float", s |-> exponent, n |-> mantissa, items |-> <<>>]
\* a datetime: n is year * 10000 + month * 100 + day
PyDatetime(ymd) == [type |-> "datetime", s |-> "", n |-> ymd, items |-> <<>>]

\* d[k] = v
SetItem(d, k, v) ==
    IF Has(d, k)
       THEN PyDict([i \in DOMAIN d.items |->
                      IF d.items[i].key = k THEN Item(k, v) ELSE d.items[i]])
       ELSE PyDict(Append(d.items, Item(k, v)))
\* d.pop(k, None)
Pop(d, k) == PyDict(SelectSeq(d.items, LAMBDA pair : pair.key # k))

\* telegram_bot.py:199-200, 324-325: value / 100 raises TypeError on a str
DivRaises(v) == v.type \notin {"int", "float"}
\* value / 100
Div100(v) ==
    CASE v.type = "int" -> PyFloat(v.n, "e-2")
      [] v.type = "float" /\ v.s = "e0" -> PyFloat(v.n, "e-2")
      [] OTHER -> PyFloat(v.n, "e-4")

\* telegram_bot.py:287-291: the (entry_idx, key) pairs of one record whose
\* value is the sentinel, in the order of its items; entry_idx counts from 0
EntryQueue(entry_idx, e) ==
    LET unresolved == SelectSeq(e.items, LAMBDA pair : pair.value = PyStr(Sentinel))
    IN  [i \in DOMAIN unresolved |-> <<entry_idx, unresolved[i].key>>]

RECURSIVE ScanFrom(_, _)
ScanFrom(report, position) ==
    IF position > Len(report.items) THEN <<>>
    ELSE EntryQueue(position - 1, report.items[position]) \o ScanFrom(report, position + 1)

\* telegram_bot.py:287-291: corrections_queue of a record list
corrections_queue(report) == ScanFrom(report, 1)

\* telegram_bot.py:189-192, 314-317
needs_val(entries) ==
    \E i \in DOMAIN entries.items : Get(entries.items[i], "Operaciya") = PyStr(Harvest)

YieldKeys == <<"Val s nachala, c", "Val za den, c">>

\* telegram_bot.py:194-200, 319-325 on one record: does it raise (KeyError on
\* a missing yield, TypeError on a yield that is no number)
FinalizeRaises(e, keep) ==
    keep /\ \E i \in DOMAIN YieldKeys :
               ~Has(e, YieldKeys[i]) \/ DivRaises(Get(e, YieldKeys[i]))

\* a loop body that only drops the fragment
FinalizedEntryKeepsYields(e, keep) == Pop(e, "Dannye")

\* the record after the loop body, or as the raise left it: the fragment is
\* popped first, then the cumulative yield is divided, then the daily one
FinalizedEntry(e, keep) ==
    LET popped == Pop(e, "Dannye")
        first == YieldKeys[1]
        second == YieldKeys[2]
    IN  IF ~keep THEN Pop(Pop(popped, first), second)
        ELSE IF ~Has(popped, first) \/ DivRaises(Get(popped, first)) THEN popped
        ELSE LET half == SetItem(popped, first, Div100(Get(popped, first)))
             IN  IF ~Has(half, second) \/ DivRaises(Get(half, second)) THEN half
                 ELSE SetItem(half, second, Div100(Get(half, second)))

\* telegram_bot.py:189-200, 313-325: the finalization loop raises
finalize_raises(entries) ==
    \E i \in DOMAIN entries.items : FinalizeRaises(entries.items[i], needs_val(entries))

\* the list after the finalization loop: the records up to and including the
\* first one that raises have been changed
finalize(entries) ==
    LET keep == needs_val(entries)
        reached(i) == \A k \in 1..(i - 1) : ~FinalizeRaises(entries.items[k], keep)
    IN  PyList([i \in DOMAIN entries.items |->
                  IF reached(i) THEN FinalizedEntry(entries.items[i], keep)
                                ELSE entries.items[i]])

\* telegram_bot.py:119-121: datetime.strptime(date, "%d.%m.%Y")
DayMonthYear == [date \in {"01.05.2024", "02.05.2024"} |->
                   IF date = "01.05.2024" THEN 20240501 ELSE 20240502]
strptime_raises(v) == v.type # "str" \/ v.s \notin DOMAIN DayMonthYear
\* datetime.strptime(date, "%m.%d.%Y")
strptime_month_first(v) == PyDatetime(IF v.s = "01.05.2024" THEN 20240105 ELSE 20240205)
strptime(v) == PyDatetime(DayMonthYear[v.s])

\* telegram_bot.py:117-121: the loop raises (KeyError, TypeError, ValueError)
reparse_raises(report) ==
    \/ report.type # "list"
    \/ \E i \in DOMAIN report.items :
          ~Has(report.items[i], "Data") \/ strptime_raises(Get(report.items[i], "Data"))

\* the list after the loop: the records before the first one that raises
\* have their date replaced
reparse(report) ==
    LET bad(i) == ~Has(report.items[i], "Data")
                     \/ strptime_raises(Get(report.items[i], "Data"))
    IN  IF report.type # "list" THEN report
        ELSE PyList([i \in DOMAIN report.items |->
                       IF \A k \in 1..i : ~bad(k)
                          THEN SetItem(report.items[i], "Data",
                                       strptime(Get(report.items[i], "Data")))
                          ELSE report.items[i]])

\* db/interaction.py:5-14
mapping(key) ==
    CASE key = "Data" -> "date"
      [] key = "Podrazdelenie" -> "unit"
      [] key = "Operaciya" -> "operation"
      [] key = "Kultura" -> "cultura"
      [] key = "Za den, ga" -> "GA_per_day"
      [] key = "S nachala operacii, ga" -> "GA_per_operation"
      [] key = "Val za den, c" -> "val_per_day"
      [] key = "Val s nachala, c" -> "val_per_operation"
      [] OTHER -> ""

\* db/interaction.py:28-34: the rows built from the records
mapped_records(records) ==
    [i \in DOMAIN records.items |->
        LET known == SelectSeq(records.items[i].items, LAMBDA pair : mapping(pair.key) # "")
        IN  PyDict([k \in DOMAIN known |-> Item(mapping(known[k].key), known[k].value)])]

\* a record as build returns it
Report(date, operation, division, culture, day_yield) ==
    PyDict(<<Item("Data", PyStr(date)), Item("Operaciya", PyStr(operation)),
             Item("Dannye", PyStr("fragment")), Item("Podrazdelenie", PyStr(division)),
             Item("Kultura", PyStr(culture)), Item("Za den, ga", PyInt(10)),
             Item("S nachala operacii, ga", PyInt(20)), Item("Val za den, c", day_yield),
             Item("Val s nachala, c", PyInt(600))>>)

\* a result with three unresolved vocabulary fields in two records
Unresolved ==
    PyList(<<Report("01.05.2024", Sentinel, "AOR", "Pshenica", PyInt(300)),
             Report("02.05.2024", "Sev", Sentinel, Sentinel, PyInt(300))>>)

\* the values send_and_receive may return to the bot: what a Worker replied
Responses ==
    {ERROR_TEXT,
     \* nothing unresolved, no harvest
     PyList(<<Report("01.05.2024", "Sev", "AOR", "Pshenica", PyInt(300))>>),
     \* nothing unresolved, a harvest record and another one
     PyList(<<Report("01.05.2024", Harvest, "AOR", "Pshenica", PyInt(300)),
              Report("02.05.2024", "Sev", "AOR", "Pshenica", PyInt(300))>>),
     Unresolved,
     \* a harvest record with an unresolved yield
     PyList(<<Report("01.05.2024", Harvest, "AOR", "Pshenica", PyStr(Sentinel))>>),
     \* a harvest record whose yield is a str
     PyList(<<Report("01.05.2024", Harvest, "AOR", "Pshenica", PyStr("300"))>>),
     \* a date the pipeline left in ISO form
     PyList(<<Report("2024-05-01", "Sev", "AOR", "Pshenica", PyInt(300))>>)}

\* the text messages an operator may answer with
Inputs == {" Uborka ", "Ris"}
\* str.strip
strip(text) == IF text = " Uborka " THEN "Uborka" ELSE text

NoCorrections == [present |-> FALSE, entries |-> 0, queue |-> <<>>, current_index |-> 0]
\* context.user_data of a conversation without keys; a reference 0 is no object
EmptyUserData ==
    [awaiting_correction |-> FALSE, corrections |-> NoCorrections, corrected_entries |-> 0]
NotOffered == [present |-> FALSE, batch |-> PyNone, closing |-> "no"]
\* what is left of the handlers of the presses of an offer when another list
\* is offered to the conversation: the one that has not dropped the corrected
\* list yet will still do it
Superseded(closing) == IF closing \in {"sent", "stale"} THEN "stale" ELSE "no"

\* conversations of the bot, and text submissions made to it
NumChats == 2
MaxSubmissions == 2
Chats == 1 .. NumChats

(***************************************************************************)
(* The allow-list, utils.py:314-350.  The two settings are the strings of  *)
(* the environment (main.py:33-34); a user id is an int.                   *)
(***************************************************************************)
\* str(user_id)
str(user_id) == <<"1", "2", "3", "4">>[user_id]
\* the settings of the model and what str.split(",") makes of each
split ==
    [setting \in {"*", "-", "1", "2", "1,2"} |->
        CASE setting = "1,2" -> <<PyStr("1"), PyStr("2")>>
          [] OTHER -> <<PyStr(setting)>>]
Configs == [allowed_user_ids : {"*", "1", "2", "1,2"}, admin_user_ids : {"-", "2"}]
\* everyone may use the bot
Open == [allowed_user_ids |-> "*", admin_user_ids |-> "-"]
\* v in list: an int never equals a str
contains(list, v) == \E i \in DOMAIN list : list[i] = v
\* utils.py:333-350
is_admin(settings, user_id) ==
    /\ settings.admin_user_ids # "-"
    /\ contains(split[settings.admin_user_ids], PyStr(str(user_id)))
\* utils.py:314-330: line 327 looks for the int among the strings; the
\* mutant looks for str(user_id)
is_allowed_str(settings, user_id) ==
    \/ settings.allowed_user_ids = "*"
    \/ is_admin(settings, user_id)
    \/ contains(split[settings.allowed_user_ids], PyStr(str(user_id)))
is_allowed(settings, user_id) ==
    \/ settings.allowed_user_ids = "*"
    \/ is_admin(settings, user_id)
    \/ contains(split[settings.allowed_user_ids], PyInt(user_id))

(***************************************************************************)
(* image_utils.order_points, image_utils.py:9-34.  pts is the (4, 2) array *)
(* preprocess_image passes (line 125): four vertices of a polygon, with    *)
(* integer pixel coordinates of a width that their sums and differences    *)
(* do not leave.  rect is float32, which holds such integers exactly.      *)
(***************************************************************************)
\* the largest coordinate of a point
MaxCoord == 2
Pixels == 0 .. MaxCoord
Points == [x : Pixels, y : Pixels]
\* the arrays of four vertices
Quadrilaterals ==
    {q \in [1..4 -> Points] : \A i, j \in 1..4 : i # j => q[i] # q[j]}

\* image_utils.py:23: pts.sum(axis=1), per row
sum(p) == p.x + p.y
\* image_utils.py:30: np.diff(pts, axis=1), per row: the second column minus
\* the first; the mutant takes the first minus the second
diff_reversed(p) == p.x - p.y
diff(p) == p.y - p.x
\* np.argmin / np.argmax: the first index of the smallest (largest) value
argmin(values) ==
    CHOOSE i \in DOMAIN values :
       /\ \A j \in DOMAIN values : values[i] <= values[j]
       /\ \A j \in DOMAIN values : j < i => values[j] # values[i]
argmax(values) ==
    CHOOSE i \in DOMAIN values :
       /\ \A j \in DOMAIN values : values[i] >= values[j]
       /\ \A j \in DOMAIN values : j < i => values[j] # values[i]
\* image_utils.py:19-34
order_points(points) ==
    LET s == [i \in DOMAIN points |-> sum(points[i])]
        d == [i \in DOMAIN points |-> diff(points[i])]
    IN  <<points[argmin(s)], points[argmin(d)], points[argmax(s)], points[argmax(d)]>>

(***************************************************************************)
(* image_utils.preprocess_image from the contours on, image_utils.py:      *)
(* 78-179.  What OpenCV finds in the image is the input: each external     *)
(* contour with its area and the polygon approxPolyDP makes of it.  The    *)
(* image is Side pixels wide and high.                                     *)
(***************************************************************************)
\* contours per image
MaxContours == 2
Side == MaxCoord + 1
Pt(x, y) == [x |-> x, y |-> y]
\* the polygons approxPolyDP may return: with three, four and five vertices
Polygons ==
    {<<Pt(0, 0), Pt(2, 0), Pt(1, 1)>>,
     <<Pt(0, 0), Pt(1, 0), Pt(1, 1)>>,
     <<Pt(0, 0), Pt(2, 0), Pt(2, 2), Pt(0, 2)>>,
     <<Pt(0, 0), Pt(2, 1), Pt(2, 2), Pt(0, 2)>>,
     <<Pt(1, 0), Pt(0, 1), Pt(1, 2), Pt(2, 1)>>,
     <<Pt(0, 0), Pt(1, 0), Pt(2, 0), Pt(2, 1)>>,
     <<Pt(0, 0), Pt(1, 0), Pt(2, 1), Pt(1, 2), Pt(0, 2)>>}
\* cv2.contourArea of the contour itself, in pixels
Areas == {0, 1, 2, 4}
Contours == [area : Areas, approx : Polygons]
Images == UNION {[1..n -> Contours] : n \in 0..MaxContours}

\* image_utils.py:78-79: cv2.contourArea(cnt) > 0.1 * img.shape[0] * img.shape[1]
Large(cnt) == 10 * cnt.area > Side * Side
filtered_contours(found) == SelectSeq(found, Large)

Smallest(values) == CHOOSE v \in values : \A w \in values : v <= w
Largest(values) == CHOOSE v \in values : \A w \in values : v >= w
Xs(polygon) == {polygon[i].x : i \in DOMAIN polygon}
Ys(polygon) == {polygon[i].y : i \in DOMAIN polygon}
\* cv2.boundingRect of integer points: the box that holds them
boundingRect(polygon) ==
    [x |-> Smallest(Xs(polygon)), y |-> Smallest(Ys(polygon)),
     w |-> Largest(Xs(polygon)) - Smallest(Xs(polygon)) + 1,
     h |-> Largest(Ys(polygon)) - Smallest(Ys(polygon)) + 1]
\* twice cv2.contourArea of a polygon
Abs(n) == IF n < 0 THEN 0 - n ELSE n
RECURSIVE Shoelace(_, _)
Shoelace(polygon, i) ==
    IF i > Len(polygon) THEN 0
    ELSE LET p == polygon[i]
             q == polygon[(i % Len(polygon)) + 1]
         IN  p.x * q.y - q.x * p.y + Shoelace(polygon, i + 1)
contourArea2(polygon) == Abs(Shoelace(polygon, 1))
\* image_utils.py:94-97: area_ratio, as the fraction <<twice the area, twice
\* the area of the box>>
area_ratio(polygon) ==
    <<contourArea2(polygon), 2 * boundingRect(polygon).w * boundingRect(polygon).h>>
Greater(a, b) == a[1] * b[2] > b[1] * a[2]
\* image_utils.py:83-102: the index of the best quadrilateral among the
\* filtered contours, 0 for None: the first with the largest ratio above 0
best_quadrilateral(filtered) ==
    LET scored == {i \in DOMAIN filtered :
                      /\ Len(filtered[i].approx) = 4
                      /\ Greater(area_ratio(filtered[i].approx), <<0, 1>>)}
    IN  IF scored = {} THEN 0
        ELSE CHOOSE i \in scored :
                /\ \A j \in scored :
                      ~Greater(area_ratio(filtered[j].approx), area_ratio(filtered[i].approx))
                /\ \A j \in scored :
                      j < i => Greater(area_ratio(filtered[i].approx),
                                       area_ratio(filtered[j].approx))
\* image_utils.py:106: max(filtered_contours, key=cv2.contourArea), the first
\* of the largest
largest_contour(filtered) ==
    filtered[argmax([i \in DOMAIN filtered |-> filtered[i].area])]
\* image_utils.py:104-119: the four points the warp starts from; the mutant
\* takes the polygon of the largest contour as it is
corners_unboxed(filtered) ==
    IF best_quadrilateral(filtered) # 0
       THEN filtered[best_quadrilateral(filtered)].approx
       ELSE largest_contour(filtered).approx
corners(filtered) ==
    LET best_contour ==
            IF best_quadrilateral(filtered) # 0
               THEN filtered[best_quadrilateral(filtered)].approx
               ELSE largest_contour(filtered).approx
        box == boundingRect(best_contour)
    IN  IF Len(best_contour) # 4
           THEN <<Pt(box.x, box.y), Pt(box.x + box.w, box.y),
                  Pt(box.x + box.w, box.y + box.h), Pt(box.x, box.y + box.h)>>
           ELSE best_contour
\* int(np.sqrt(...)) of the squared distance of two points
isqrt(n) == CHOOSE k \in 0..n : k * k <= n /\ n < (k + 1) * (k + 1)
side(p, q) == isqrt((q.x - p.x) * (q.x - p.x) + (q.y - p.y) * (q.y - p.y))
\* image_utils.py:128-142
max_width(r) == Largest({side(r[1], r[2]), side(r[3], r[4])})
max_height(r) == Largest({side(r[1], r[4]), side(r[2], r[3])})
\* what preprocess_image wrote: the binarized image, warped or not, and its size
NoOutput == [status |-> "none", warped |-> FALSE, width |-> 0, height |-> 0]
Warped(r) ==
    [status |-> "returned", warped |-> TRUE, width |-> max_width(r), height |-> max_height(r)]
Binarized == [status |-> "returned", warped |-> FALSE, width |-> Side, height |-> Side]
Raised == [status |-> "raised", warped |-> FALSE, width |-> 0, height |-> 0]

\* string items per value, and applications of clean_string in a row
MaxItems == 2
MaxPasses == 2

(***************************************************************************)
(* clean_string character by character, utils.py:274-283.  A text is a     *)
(* sequence of characters; each is written as a string: a character that   *)
(* some rule of clean_string looks at stands for itself or has a name       *)
(* ("BACKSLASH", "QUOTE", "BACKTICK", "NEWLINE", "TAB", " "), and a longer  *)
(* string stands for a run of characters no rule changes.                   *)
(***************************************************************************)
\* the run "Data":"01.05.2024","Operaciya":"Sev","Dannye": of a record
FieldHead == "HEAD"
\* four hexadecimal digits
Hex == "0041"
\* \s
Whitespace == {" ", "NEWLINE", "TAB"}
\* the first character of c is one of "\/bfnrt
Escapable(c) == c \in {"QUOTE", "BACKSLASH", "/", "b", "f", "n", "r", "t", FieldHead}

\* s[from..]
From(s, from) == SubSeq(s, from, Len(s))
\* s starts with prefix
StartsWith(s, prefix) ==
    Len(s) >= Len(prefix) /\ SubSeq(s, 1, Len(prefix)) = prefix

Fence == <<"BACKTICK", "BACKTICK", "BACKTICK">>
\* utils.py:275: re.sub(r"```json|```", "", s)
RECURSIVE sub_fence(_)
sub_fence(s) ==
    IF s = <<>> THEN <<>>
    ELSE IF StartsWith(s, Fence \o <<"j", "s", "o", "n">>) THEN sub_fence(From(s, 8))
    ELSE IF StartsWith(s, Fence) THEN sub_fence(From(s, 4))
    ELSE <<s[1]>> \o sub_fence(Tail(s))

\* re.sub of a backslash followed by the character c, by the replacement
RECURSIVE sub_escape(_, _, _)
sub_escape(s, c, replacement) ==
    IF s = <<>> THEN <<>>
    ELSE IF StartsWith(s, <<"BACKSLASH", c>>)
            THEN replacement \o sub_escape(From(s, 3), c, replacement)
    ELSE <<s[1]>> \o sub_escape(Tail(s), c, replacement)

\* re.sub of the character c by the replacement
RECURSIVE sub_char(_, _, _)
sub_char(s, c, replacement) ==
    IF s = <<>> THEN <<>>
    ELSE (IF s[1] = c THEN replacement ELSE <<s[1]>>) \o sub_char(Tail(s), c, replacement)

\* the number of whitespace characters s starts with
RECURSIVE Blanks(_)
Blanks(s) == IF s # <<>> /\ s[1] \in Whitespace THEN 1 + Blanks(Tail(s)) ELSE 0

\* utils.py:278: re.sub(r"\s+", " ", s)
RECURSIVE sub_spaces(_)
sub_spaces(s) ==
    IF s = <<>> THEN <<>>
    ELSE IF s[1] \in Whitespace THEN <<" ">> \o sub_spaces(From(s, Blanks(s) + 1))
    ELSE <<s[1]>> \o sub_spaces(Tail(s))

\* utils.py:281: re.sub(r'\\([^"\\/bfnrt])', r"\\\\\1", s)
RECURSIVE sub_backslash(_)
sub_backslash(s) ==
    IF s = <<>> THEN <<>>
    ELSE IF s[1] = "BACKSLASH" /\ Len(s) >= 2 /\ ~Escapable(s[2])
            THEN <<"BACKSLASH", "BACKSLASH", s[2]>> \o sub_backslash(From(s, 3))
    ELSE <<s[1]>> \o sub_backslash(Tail(s))

Closing == {"}", "]"}
Opening == {"{", "["}
\* s starts with a closing brace or bracket, whitespace, an opening one
Adjacent(s) ==
    /\ s # <<>>
    /\ s[1] \in Closing
    /\ Len(s) >= Blanks(Tail(s)) + 2
    /\ s[Blanks(Tail(s)) + 2] \in Opening

\* re.sub(r"([}\]])\s*([{\[])", r"\1,,\2", s)
RECURSIVE sub_two_commas(_)
sub_two_commas(s) ==
    IF s = <<>> THEN <<>>
    ELSE IF Adjacent(s)
            THEN <<s[1], ",", ",", s[Blanks(Tail(s)) + 2]>>
                    \o sub_two_commas(From(s, Blanks(Tail(s)) + 3))
    ELSE <<s[1]>> \o sub_two_commas(Tail(s))

\* utils.py:282: re.sub(r"([}\]])\s*([{\[])", r"\1,\2", s)
RECURSIVE sub_commas(_)
sub_commas(s) ==
    IF s = <<>> THEN <<>>
    ELSE IF Adjacent(s)
            THEN <<s[1], ",", s[Blanks(Tail(s)) + 2]>>
                    \o sub_commas(From(s, Blanks(Tail(s)) + 3))
    ELSE <<s[1]>> \o sub_commas(Tail(s))

\* str.strip of a sequence of characters
RECURSIVE strip_right(_)
strip_right(s) ==
    IF s # <<>> /\ s[Len(s)] \in Whitespace THEN strip_right(SubSeq(s, 1, Len(s) - 1)) ELSE s
strip_chars(s) == strip_right(From(s, Blanks(s) + 1))

\* utils.py:275-281: the text when the comma rule is reached
before_commas(json_string) ==
    sub_backslash(
        sub_escape(
            sub_char(
                sub_spaces(
                    sub_char(
                        sub_escape(sub_fence(json_string), "n", <<>>),
                        "NEWLINE", <<>>)),
                "TAB", <<" ">>),
            "t", <<" ">>))

\* utils.py:274-283: clean_string of a sequence of characters
clean_chars(json_string) == strip_chars(sub_commas(before_commas(json_string)))

\* the escapes and characters a JSON string value is made of here
StringItems ==
    {<<"a">>, <<"n">>, <<" ">>, <<"}", "{">>,
     <<"BACKSLASH", "n">>, <<"BACKSLASH", "t">>, <<"BACKSLASH", "BACKSLASH">>,
     <<"BACKSLASH", "QUOTE">>, <<"BACKSLASH", "u", Hex>>}
\* the string values of at most n items
RECURSIVE Contents(_)
Contents(n) ==
    IF n = 0 THEN {<<>>}
    ELSE Contents(n - 1) \cup {content \o item : content \in Contents(n - 1), item \in StringItems}
\* a record object whose free-text field has the value content
RecordText(content) == <<"{", FieldHead, "QUOTE">> \o content \o <<"QUOTE", "}">>
\* the texts given to clean_string: JSON arrays of two records (compact, and
\* indented over several lines), the same inside a code fence, and records
\* or arrays written one after the other without a comma
Texts_(content) ==
    LET first == RecordText(content)
        second == RecordText(<<"a">>)
    IN  {[kind |-> "json", chars |-> <<"[">> \o first \o <<",">> \o second \o <<"]">>],
         [kind |-> "json",
          chars |-> <<"[", "NEWLINE", " ", " ">> \o first \o <<",", "NEWLINE", " ", " ">>
                       \o second \o <<"NEWLINE", "]">>],
         [kind |-> "fenced",
          chars |-> Fence \o <<"j", "s", "o", "n", "NEWLINE", "[">> \o first \o <<",", " ">>
                       \o second \o <<"]", "NEWLINE">> \o Fence],
         [kind |-> "concatenated", chars |-> first \o second],
         [kind |-> "concatenated", chars |-> first \o <<"NEWLINE", "TAB">> \o second \o first],
         [kind |-> "concatenated",
          chars |-> <<"[">> \o first \o <<"]", " ", "[">> \o second \o <<"]">>]}
CleanInputs == UNION {Texts_(content) : content \in Contents(MaxItems)}
NoText == [kind |-> "none", chars |-> <<>>]

(***************************************************************************)
(* Broker names.                                                           *)
(***************************************************************************)
\* utils.py:292, the id of the g-th submission: uuid4 draws are pairwise distinct
uuid4(g) == <<"uuid", g>>
\* a correlation id no Gateway generated
ForeignId == <<"uuid", 0>>
\* utils.py:289, the broker-generated name of the exclusive queue of Gateway g
QueueName(g) == <<"amq.gen", g>>
NoName == <<"none", 0>>

VARIABLES
    gpc,             \* Gateway g: position in send_and_receive
    corr_id,         \* Gateway g: corr_id
    future,          \* Gateway g: the future, [done, result]
    callback_queue,  \* Gateway g: messages waiting on its reply queue
    query_queue,     \* the work queue "query_queue": messages ready for delivery
    tasks,           \* Worker w: its handle_message tasks, in order of delivery
    runs,            \* history: number of build calls started for the job of g
    replies,         \* history: number of replies Workers published for the job of g
    acks,            \* history: number of acknowledgements of deliveries of the job of g
    rejects,         \* history: number of rejections of deliveries of the job of g
    raised,          \* history: a build call for the job of g raised
    requeues,        \* history: number of times the broker put the job of g back
    strays,          \* number of foreign messages put on reply queues
    kills,           \* number of Worker kills
    builder,         \* the ReportBuilder of a Worker: its build call
    allowed_entities,\* report_builder.py:25, the vocabulary lists of that process
    builds,          \* number of build calls made on builder
    entry,           \* the record last given to OperationEntry.model_validate
    verdict,         \* how that validation ended: "accepted", "rejected", "none"
    validations,     \* number of validations made on their own
    last_report,     \* AgroReportTelegramBot.last_report: a reference into objects
    last_report_data,\* AgroReportTelegramBot.last_report_data
    user_data,       \* conversation c: context.user_data
    objects,         \* the list objects of the bot process, by reference
    waiting,         \* conversation c: number of prompt calls awaiting send_and_receive
    offered,         \* conversation c: the list last shown with the two buttons
    database,        \* the bulk inserts made, in order
    submissions,     \* number of submissions made to the bot
    answers,         \* history: the answers stored in the session of c, in order
    handled,         \* history: how the last button press of c ended
    received,        \* history: the value send_and_receive last returned to c
    replied,         \* history: the reply the last handler step of c sent, or "none"
    json_string,     \* the text clean_string is first given, [kind, chars]
    cleaned,         \* what each application of clean_string in a row returned
    pts,             \* the array order_points is given, <<>> when there is none
    rect,            \* what order_points returned, <<>> before
    config,          \* the bot's settings, [allowed_user_ids, admin_user_ids]
    contours,        \* the contours findContours gave preprocess_image, each [area, approx]
    output           \* the image preprocess_image wrote, [status, warped, width, height]

vars == <<gpc, corr_id, future, callback_queue, query_queue, tasks,
          runs, replies, acks, rejects, raised, requeues, strays, kills,
          builder, allowed_entities, builds,
          entry, verdict, validations,
          last_report, last_report_data, user_data, objects, waiting, offered,
          database, submissions, answers, handled, received, replied,
          json_string, cleaned, pts, rect, config, contours, output>>

rpcVars == <<gpc, corr_id, future, callback_queue, query_queue, tasks,
             runs, replies, acks, rejects, raised, requeues, strays, kills>>
buildVars == <<builder, allowed_entities, builds>>
validateVars == <<entry, verdict, validations>>
botVars == <<last_report, last_report_data, user_data, objects, waiting, offered,
             database, submissions, answers, handled, received, replied, config>>

\* what the steps of one part of the program leave alone
cleanVars == <<json_string, cleaned>>
imageVars == <<pts, rect, contours, output>>
outsideRpc == <<buildVars, validateVars, botVars, cleanVars, imageVars>>
outsideBuild == <<rpcVars, validateVars, botVars, cleanVars, imageVars>>
outsideValidate == <<rpcVars, builder, builds, botVars, cleanVars, imageVars>>
outsideBot == <<rpcVars, buildVars, validateVars, cleanVars, imageVars, config>>
outsideClean == <<rpcVars, buildVars, validateVars, botVars, imageVars>>
outsideImage == <<rpcVars, buildVars, validateVars, botVars, cleanVars>>

gatewayVars == <<gpc, corr_id, future, callback_queue>>
historyVars == <<runs, replies, acks, rejects, raised, requeues>>

Pending == [done |-> FALSE, result |-> PyNone]

\* a Gateway that is "off" makes no submission
\* the state after construction, but for the conversations' state
InitOther ==
    /\ gpc \in [Gateways -> {"start", "off"}]
    /\ corr_id = [g \in Gateways |-> NoName]
    /\ future = [g \in Gateways |-> Pending]
    /\ callback_queue = [g \in Gateways |-> <<>>]
    /\ query_queue = <<>>
    /\ tasks = [w \in Workers |-> <<>>]
    /\ runs = [g \in Gateways |-> 0]
    /\ replies = [g \in Gateways |-> 0]
    /\ acks = [g \in Gateways |-> 0]
    /\ rejects = [g \in Gateways |-> 0]
    /\ raised = [g \in Gateways |-> FALSE]
    /\ requeues = [g \in Gateways |-> 0]
    /\ strays = 0
    /\ kills = 0
    /\ builder = IdleBuilder
    /\ allowed_entities = LoadedEntities
    /\ builds = 0
    /\ entry = PyNone
    /\ verdict = "none"
    /\ validations = 0
    /\ last_report = 1
    /\ last_report_data = ""
    /\ waiting = [c \in Chats |-> 0]
    /\ offered = [c \in Chats |-> NotOffered]
    /\ database = <<>>
    /\ submissions = 0
    /\ answers = [c \in Chats |-> <<>>]
    /\ handled = [c \in Chats |-> "none"]
    /\ received = [c \in Chats |-> PyNone]
    /\ replied = [c \in Chats |-> "none"]
    /\ cleaned = <<>>
    /\ rect = <<>>
    /\ contours = <<>>
    /\ output = NoOutput

Init ==
    /\ InitOther
    /\ user_data = [c \in Chats |-> EmptyUserData]
    /\ objects = <<PyList(<<>>)>>
    /\ json_string = NoText
    /\ pts = <<>>
    /\ config = Open

\* the Gateway whose submission carries correlation id c
JobOf(c) == CHOOSE g \in Gateways : uuid4(g) = c

\* the reply queue named n exists: declared exclusive by a Gateway whose
\* connection is still open (utils.py:289, 310)
QueueExists(n) == \E g \in Gateways : QueueName(g) = n /\ gpc[g] = "waiting"

(***************************************************************************)
(* Gateway: send_and_receive, utils.py:285-311.                            *)
(***************************************************************************)
\* utils.py:286-307: connect, declare the exclusive reply queue, create the
\* future, draw the correlation id, register on_response, and publish the job
\* to "query_queue"
gateway_submit(g) ==
    /\ gpc[g] = "start"
    /\ corr_id' = [corr_id EXCEPT ![g] = uuid4(g)]
    /\ \E query_text \in Texts :
          query_queue' = Append(query_queue,
              [body |-> encode(query_text), reply_to |-> QueueName(g),
               correlation_id |-> uuid4(g)])
    /\ gpc' = [gpc EXCEPT ![g] = "waiting"]
    /\ UNCHANGED <<outsideRpc, future, callback_queue, tasks, historyVars, strays, kills>>

\* utils.py:295: the test on_response makes on a message
MatchesOther(message, g) == TRUE
Matches(message, g) == message.correlation_id = corr_id[g]

\* utils.py:294-296: on_response on the next message of the reply queue.
\* Setting the result of a future that is already done raises inside the
\* callback and leaves the future as it is.
on_response(g) ==
    /\ gpc[g] = "waiting"
    /\ callback_queue[g] # <<>>
    /\ LET message == Head(callback_queue[g]) IN
          /\ callback_queue' = [callback_queue EXCEPT ![g] = Tail(@)]
          /\ IF Matches(message, g) /\ ~future[g].done
                THEN future' = [future EXCEPT ![g] =
                        [done |-> TRUE, result |-> json_loads(decode(message.body))]]
                ELSE UNCHANGED future
    /\ UNCHANGED <<outsideRpc, gpc, corr_id, query_queue, tasks, historyVars, strays, kills>>

\* utils.py:309-311: the await on the future returns, the connection is
\* closed (its exclusive queue goes with it) and the response is returned
gateway_return(g) ==
    /\ gpc[g] = "waiting"
    /\ future[g].done
    /\ gpc' = [gpc EXCEPT ![g] = "done"]
    /\ callback_queue' = [callback_queue EXCEPT ![g] = <<>>]
    /\ UNCHANGED <<outsideRpc, corr_id, future, query_queue, tasks, historyVars, strays, kills>>

\* a client other than the Workers publishes to the reply queue of g; it
\* cannot know a correlation id a Gateway drew
stray_reply(g) ==
    /\ strays < MaxStray
    /\ QueueExists(QueueName(g))
    /\ callback_queue' = [callback_queue EXCEPT ![g] =
          Append(@, [body |-> encode(json_dumps(PyList(<<RecordResolved>>))),
                     correlation_id |-> ForeignId])]
    /\ strays' = strays + 1
    /\ UNCHANGED <<outsideRpc, gpc, corr_id, future, query_queue, tasks, historyVars, kills>>

(***************************************************************************)
(* Broker: delivery of the work queue to the consuming Workers.            *)
(***************************************************************************)
\* sent is history: "yes" when the task published its reply, "failed" when
\* exchange.publish raised
NewTask(m) == [msg |-> m, pc |-> "start", result |-> PyNone, exc |-> FALSE, sent |-> "no"]

\* the queue after the delivery of its first message: a message is delivered
\* to one consumer
DeliveredToAll(queue) == queue
Delivered(queue) == Tail(queue)

\* worker.py:90: Worker w consumes "query_queue" with explicit acknowledgement
\* and no prefetch limit; every delivery becomes a handle_message task and
\* stays unacknowledged until that task leaves message.process()
deliver(w) ==
    /\ query_queue # <<>>
    /\ tasks' = [tasks EXCEPT ![w] = Append(@, NewTask(Head(query_queue)))]
    /\ query_queue' = Delivered(query_queue)
    /\ UNCHANGED <<outsideRpc, gatewayVars, historyVars, strays, kills>>

(***************************************************************************)
(* Worker: handle_message, worker.py:47-66.                                *)
(***************************************************************************)
RemoveAt(s, i) == [k \in 1..(Len(s) - 1) |-> IF k < i THEN s[k] ELSE s[k + 1]]

\* builder.build is an ordinary (blocking) call inside the coroutine: while
\* it runs, the event loop of the Worker runs nothing else (worker.py:53)
LoopFreeAsync(w) == TRUE
LoopFree(w) == \A i \in DOMAIN tasks[w] : tasks[w][i].pc # "building"

\* worker.py:64: does an exception raised inside the try block leave it
EscapesTryNoExcept(outcome) == outcome.kind = "raise"
EscapesTry(outcome) == FALSE

\* worker.py:64-66: the except clause logs the exception; the task goes on to
\* leave message.process()
OnExceptionReply(t) == [t EXCEPT !.pc = "publish", !.result = ERROR_TEXT]
OnException(t) ==
    [t EXCEPT !.pc = "exit", !.exc = EscapesTry([kind |-> "raise", value |-> PyNone])]

\* worker.py:56: where the task goes when build returned; the mutant leaves
\* the try block at once
AfterBuildExit(t) == "exit"
AfterBuild(t) == IF t.msg.reply_to # NoName THEN "publish" ELSE "exit"

\* worker.py:48-53: the task enters message.process(), decodes the body and
\* calls builder.build; tasks start in the order of their creation
build_start(w) ==
    /\ LoopFree(w)
    /\ \E i \in DOMAIN tasks[w] :
          /\ tasks[w][i].pc = "start"
          /\ \A k \in 1..(i - 1) : tasks[w][k].pc # "start"
          /\ tasks' = [tasks EXCEPT ![w][i].pc = "building"]
          /\ runs' = [runs EXCEPT ![JobOf(tasks[w][i].msg.correlation_id)] = @ + 1]
    /\ UNCHANGED <<outsideRpc, gatewayVars, query_queue, replies, acks, rejects, raised, requeues,
                   strays, kills>>

\* worker.py:53-56, 64-66: build returns a value or raises
build_end(w) ==
    \E i \in DOMAIN tasks[w] :
       /\ tasks[w][i].pc = "building"
       /\ \E outcome \in BuildOutcomes :
             LET t == tasks[w][i]
                 g == JobOf(t.msg.correlation_id)
             IN  IF outcome.kind = "return"
                    THEN /\ tasks' = [tasks EXCEPT ![w][i] =
                                [t EXCEPT !.result = outcome.value,
                                          !.pc = AfterBuild(t)]]
                         /\ UNCHANGED raised
                    ELSE /\ tasks' = [tasks EXCEPT ![w][i] = OnException(t)]
                         /\ raised' = [raised EXCEPT ![g] = TRUE]
       /\ UNCHANGED <<outsideRpc, gatewayVars, query_queue, runs, replies, acks, rejects, requeues,
                      strays, kills>>

\* worker.py:58-61: the reply message
ReplyNoCorrelation(t) ==
    [body |-> encode(json_dumps(t.result)), correlation_id |-> NoName]
Reply(t) ==
    [body |-> encode(json_dumps(t.result)), correlation_id |-> t.msg.correlation_id]

\* the default exchange routes a message to the queue named by its routing
\* key, and drops it when no such queue exists
Route(queues, routing_key, message) ==
    [g \in Gateways |->
        IF QueueName(g) = routing_key /\ QueueExists(routing_key)
           THEN Append(queues[g], message) ELSE queues[g]]

\* worker.py:56-63: publish the reply to the queue named by reply_to
publish_reply(w) ==
    /\ LoopFree(w)
    /\ \E i \in DOMAIN tasks[w] :
          /\ tasks[w][i].pc = "publish"
          /\ callback_queue' =
                Route(callback_queue, tasks[w][i].msg.reply_to, Reply(tasks[w][i]))
          /\ replies' = [replies EXCEPT ![JobOf(tasks[w][i].msg.correlation_id)] = @ + 1]
          /\ tasks' = [tasks EXCEPT ![w][i].pc = "exit", ![w][i].sent = "yes"]
    /\ UNCHANGED <<outsideRpc, gpc, corr_id, future, query_queue, runs, acks, rejects,
                   raised, requeues, strays, kills>>

\* worker.py:57-66: exchange.publish raises (the channel broke); the except
\* clause logs it
publish_fail(w) ==
    /\ LoopFree(w)
    /\ \E i \in DOMAIN tasks[w] :
          /\ tasks[w][i].pc = "publish"
          /\ tasks' = [tasks EXCEPT ![w][i] = [OnException(@) EXCEPT !.sent = "failed"]]
    /\ UNCHANGED <<outsideRpc, gatewayVars, query_queue, historyVars, strays, kills>>

\* worker.py:48: leaving message.process(): the delivery is acknowledged, or
\* rejected without requeue when an exception leaves the block
process_exit(w) ==
    /\ LoopFree(w)
    /\ \E i \in DOMAIN tasks[w] :
          /\ tasks[w][i].pc = "exit"
          /\ LET g == JobOf(tasks[w][i].msg.correlation_id) IN
                IF tasks[w][i].exc
                   THEN rejects' = [rejects EXCEPT ![g] = @ + 1] /\ UNCHANGED acks
                   ELSE acks' = [acks EXCEPT ![g] = @ + 1] /\ UNCHANGED rejects
          /\ tasks' = [tasks EXCEPT ![w] = RemoveAt(@, i)]
    /\ UNCHANGED <<outsideRpc, gatewayVars, query_queue, runs, replies, raised, requeues,
                   strays, kills>>

\* the messages of the tasks of a Worker, in order of delivery
Unacked(w) == [i \in DOMAIN tasks[w] |-> tasks[w][i].msg]

\* the Worker process is killed: its connection closes, the broker puts its
\* unacknowledged deliveries back on the queue (worker.py:90, no_ack=False),
\* and the process is started again
kill(w) ==
    /\ kills < MaxKills
    /\ tasks[w] # <<>>
    /\ query_queue' = Unacked(w) \o query_queue
    /\ tasks' = [tasks EXCEPT ![w] = <<>>]
    /\ requeues' = [g \in Gateways |->
          requeues[g] + Cardinality({i \in DOMAIN tasks[w] :
                                        tasks[w][i].msg.correlation_id = uuid4(g)})]
    /\ kills' = kills + 1
    /\ UNCHANGED <<outsideRpc, gatewayVars, runs, replies, acks, rejects, raised, strays>>

(***************************************************************************)
(* The steps of a build call.                                               *)
(***************************************************************************)
State == [builder |-> builder, allowed_entities |-> allowed_entities]
Becomes(st) == builder' = st.builder /\ allowed_entities' = st.allowed_entities

\* report_builder.py:165-178, 153-155: build is called and issues the
\* stage-1 predict call
build ==
    /\ builder.pc \in {"idle", "done"}
    /\ builds < MaxBuilds
    /\ builds' = builds + 1
    /\ Becomes(Call([builder |-> [IdleBuilder EXCEPT !.stage = 1],
                     allowed_entities |-> allowed_entities], "initial"))
    /\ UNCHANGED outsideBuild

\* utils.py:171-182, 186-195: chat.complete returns a text
complete ==
    /\ builder.pc = "request"
    /\ \E prediction \in Outputs(builder.call) : Becomes(predict_return(State, prediction))
    /\ UNCHANGED <<outsideBuild, builds>>

\* utils.py:183-186: the request of the try block raises SDKError; predict
\* sleeps 60 s and makes the request again
complete_rate_limited ==
    /\ builder.pc = "request"
    /\ RetriesOnce(builder)
    /\ \E failure \in {f \in Failures : IsSDKError(f)} :
          builder' = [builder EXCEPT !.attempt = @ + 1, !.requests = @ + 1,
                                     !.failures = Append(@, failure),
                                     !.backoffs = @ + 1]
    /\ UNCHANGED <<outsideBuild, builds, allowed_entities>>

\* utils.py:186-209: the request raises another exception, or the second
\* request raises; the exception leaves predict, and build
complete_fails ==
    /\ builder.pc = "request"
    /\ \E failure \in Failures :
          /\ RetriesOnce(builder) => ~IsSDKError(failure)
          /\ Becomes(Raise([State EXCEPT !.builder.failures = Append(@, failure)],
                           "backend"))
    /\ UNCHANGED <<outsideBuild, builds>>

(***************************************************************************)
(* Specifications.                                                         *)
(***************************************************************************)
GatewayStep(g) ==
    \/ gateway_submit(g)
    \/ on_response(g)
    \/ gateway_return(g)

WorkerStep(w) ==
    \/ build_start(w)
    \/ build_end(w)
    \/ publish_reply(w)
    \/ process_exit(w)

Program ==
    \/ \E g \in Gateways : GatewayStep(g)
    \/ \E w \in Workers : deliver(w)
    \/ \E w \in Workers : WorkerStep(w)

Next ==
    \/ Program
    \/ \E g \in Gateways : stray_reply(g)

InitAll ==
    /\ Init
    /\ \A g \in Gateways : gpc[g] = "start"

\* the program with a broker that stays up and Workers that are not killed
Spec == InitAll /\ [][Next]_vars

\* the program does not stop while one of its processes can take a step: the
\* event loops of the Gateways and of the Workers run every ready callback,
\* the broker delivers, and every backend request returns or fails
FairSpec == InitAll /\ [][Program]_vars /\ WF_vars(Program)

NextFault ==
    \/ Program
    \/ \E w \in Workers : kill(w)
    \/ \E w \in Workers : publish_fail(w)

InitFault ==
    /\ Init
    /\ \A g \in Gateways : g > MaxFaultJobs => gpc[g] = "off"

\* the program with Worker kills and failing publishes
FaultSpec == InitFault /\ [][NextFault]_vars

(***************************************************************************)
(* Properties of the Gateway and the Worker pool.                          *)
(***************************************************************************)
\* the tasks of Worker w that handle the job of Gateway g
TasksOf(w, g) == {i \in DOMAIN tasks[w] : tasks[w][i].msg.correlation_id = uuid4(g)}

\* the build call of a task that handles the job of g has returned or raised
Completed(g) ==
    \E w \in Workers : \E i \in TasksOf(w, g) : tasks[w][i].pc \in {"publish", "exit"}

\* C1: the future of a submission changes only in a step that takes, from the
\* submission's own reply queue, a message whose correlation id is the id
\* generated for that submission, and it then holds the JSON-decoded body of
\* that message; a message with another correlation id leaves it as it is.
C1_ResolvedOnlyByMatchingReply ==
    [][\A g \in Gateways :
          future'[g] # future[g] =>
             /\ callback_queue[g] # <<>>
             /\ corr_id[g] = uuid4(g)
             /\ Head(callback_queue[g]).correlation_id = uuid4(g)
             /\ future'[g] = [done |-> TRUE,
                              result |-> json_loads(decode(Head(callback_queue[g]).body))]
             /\ callback_queue'[g] = Tail(callback_queue[g])]_vars

\* C1 witness: on_response has taken a foreign message and every future is
\* still pending
C1_Witness ==
    /\ strays >= 1
    /\ \A g \in Gateways :
          gpc[g] = "waiting" /\ callback_queue[g] = <<>> /\ ~future[g].done

\* C2: once a build call for a job has raised, no reply is ever published for
\* the job and the future of its submission never resolves, and the delivery
\* is eventually acknowledged.
C2_RaiseAcksWithoutReply ==
    /\ [](\A g \in Gateways :
            raised[g] => (~future[g].done /\ replies[g] = 0 /\ rejects[g] = 0))
    /\ \A g \in Gateways : raised[g] ~> (acks[g] = 1)

\* C2 witness: the build call raised, the delivery is acknowledged and the
\* Gateway still waits
C2_Witness ==
    \E g \in Gateways :
       raised[g] /\ acks[g] = 1 /\ gpc[g] = "waiting" /\ ~future[g].done

\* C3: every message a Worker put on a reply queue lies on the queue named by
\* the job's reply_to, carries the job's correlation id and has the JSON
\* encoding of a value build returned as its body; at most one reply is
\* published for a job; and once build has returned a value v for a job, one
\* reply is published and the future of the submission eventually holds a
\* value equal to v (the error sentinel included).
C3_ReturnedValueReachesGateway ==
    /\ [](\A g \in Gateways :
            /\ replies[g] <= 1
            /\ \A i \in DOMAIN callback_queue[g] :
                  /\ callback_queue[g][i].correlation_id = uuid4(g)
                  /\ \E v \in BuildValues :
                        callback_queue[g][i].body = encode(json_dumps(v)))
    /\ \A g \in Gateways : \A v \in BuildValues :
          (\E w \in Workers : \E i \in TasksOf(w, g) :
              tasks[w][i].pc = "publish" /\ tasks[w][i].result = v)
            ~> (replies[g] = 1 /\ future[g].done /\ PyEq(future[g].result, v))

\* C3 witness: one submission resolved to the error sentinel, another to a
\* record list
C3_Witness ==
    \E g, h \in Gateways :
       /\ replies[g] = 1 /\ future[g].done /\ PyEq(future[g].result, ERROR_TEXT)
       /\ replies[h] = 1 /\ future[h].done /\ future[h].result.type = "list"

\* C4: a delivery is never rejected and never put back on the work queue, it
\* is not acknowledged before its build call has returned or raised,
\* and once the build call has returned or raised the delivery is eventually
\* acknowledged.
C4_AlwaysAcknowledged ==
    /\ [](\A g \in Gateways :
            /\ rejects[g] = 0 /\ requeues[g] = 0
            /\ \A i \in DOMAIN query_queue :
                  query_queue[i].correlation_id = uuid4(g) => runs[g] = 0
            /\ \A w \in Workers : \A i \in TasksOf(w, g) :
                  tasks[w][i].pc \in {"start", "building"} => acks[g] = 0
            /\ (acks[g] >= 1 => runs[g] = 1))
    /\ \A g \in Gateways : Completed(g) ~> (acks[g] = 1)

\* C4 witness: one delivery acknowledged after its build call raised, another
\* after its build call returned and the reply was published
C4_Witness ==
    \E g, h \in Gateways :
       /\ acks[g] = 1 /\ raised[g]
       /\ acks[h] = 1 /\ replies[h] = 1

C6_OneBuildPerWorker ==
    \A w \in Workers :
       /\ Cardinality({i \in DOMAIN tasks[w] : tasks[w][i].pc = "building"}) <= 1
       /\ \A i, k \in DOMAIN tasks[w] :
             (i < k /\ tasks[w][k].pc # "start") =>
                tasks[w][i].pc \notin {"start", "building"}

\* C6 witness: build calls in progress in two Workers at the same time
C6_Witness ==
    \A w \in Workers : \E i \in DOMAIN tasks[w] : tasks[w][i].pc = "building"

NextBuild ==
    \/ build
    \/ complete_fails
    \/ complete_rate_limited
    \/ complete

\* one Worker's builder alone: no submission is made
InitBuild ==
    /\ Init
    /\ \A g \in Gateways : gpc[g] = "off"

\* the calls of build of one Worker process
SpecBuild == InitBuild /\ [][NextBuild]_vars

\* every backend request returns or fails
FairBuild == InitBuild /\ [][NextBuild]_vars /\ WF_vars(NextBuild)

(***************************************************************************)
(* Properties of the extraction pipeline.                                  *)
(***************************************************************************)
Stages == 1..2

\* the try block of _validate found the refusal phrase in stage k
Refused(k) == builder.status[k] = "ValueError"

\* C7 as claimed: when the cleaned output of a stage contains the refusal
\* phrase, build returns ERROR_TEXT, does not raise, and makes no repair call
\* in that stage.
C7_RefusalReturnsErrorText ==
    \A k \in Stages :
       (builder.pc = "done" /\ Refused(k)) =>
          /\ builder.outcome.kind = "return"
          /\ PyEq(builder.outcome.value, ERROR_TEXT)
          /\ builder.json_fixes[k] = 0 /\ builder.field_fixes[k] = 0

\* C8: in each stage at most one repair call is made: one _correct_json call
\* exactly when the try block of _validate ended in JSONDecodeError, one
\* _correct_fields call exactly when it ended in ValidationError, none
\* otherwise; and when the repaired output fails to parse or to validate,
\* build has ended by raising that exception.
C8_OneRepairPerStage ==
    \A k \in Stages :
       /\ builder.json_fixes[k] + builder.field_fixes[k] <= 1
       /\ builder.json_fixes[k] = (IF builder.status[k] = "JSONDecodeError" THEN 1 ELSE 0)
       /\ builder.field_fixes[k] = (IF builder.status[k] = "ValidationError" THEN 1 ELSE 0)
       /\ builder.repaired[k] # "" =>
             builder.json_fixes[k] + builder.field_fixes[k] = 1
       /\ builder.repaired[k] \in {"SyntaxError", "ValidationError"} =>
             /\ builder.pc = "done" /\ builder.stage = k
             /\ builder.outcome = [kind |-> "raise", value |-> PyNone,
                                   exc |-> builder.repaired[k]]

\* C8 witness: a JSON-fix call repaired stage 1, and the output of the
\* field-fix call of stage 2 failed to validate
C8_Witness ==
    /\ builder.json_fixes = <<1, 0>> /\ builder.repaired[1] = "ok"
    /\ builder.field_fixes = <<0, 1>> /\ builder.repaired[2] = "ValidationError"
    /\ builder.outcome.kind = "raise"

\* some record of the validated stage-2 result lacks a numeric field
LacksNumeric ==
    \E i \in DOMAIN builder.result.items : ~HasNumeric(builder.result.items[i])

\* C9: when both stages have succeeded, build returns: ERROR_TEXT if a record
\* lacks one of the four numeric fields, and else the list of the renamed
\* records; it does not raise.
C9_MissingNumericReturnsErrorText ==
    (builder.pc = "done" /\ builder.stage = 3) =>
       /\ builder.outcome.kind = "return"
       /\ IF LacksNumeric
             THEN PyEq(builder.outcome.value, ERROR_TEXT)
             ELSE /\ builder.outcome.value.type = "list"
                  /\ Len(builder.outcome.value.items) = Len(builder.result.items)

\* C9 witness: both stages succeeded, a record lacks the yield fields, and
\* build returned ERROR_TEXT
C9_Witness ==
    /\ builder.pc = "done" /\ builder.stage = 3 /\ LacksNumeric
    /\ builder.status = <<"ok", "ok">>
    /\ PyEq(builder.outcome.value, ERROR_TEXT)

\* the number of records of the validated stage-1 output
NumRecords == IF builder.stage >= 2 THEN Len(builder.stage_one.items) ELSE 0

\* C10: a build call makes at most 1 + n + 2 predict calls, n the number of
\* records of the validated stage-1 output, every predict call makes at most
\* two backend requests, and a build call that waits for a backend request
\* eventually ends.
C10_BuildTerminates ==
    /\ [](/\ builder.predicts <= 1 + NumRecords + 2
          /\ builder.attempt <= 2
          /\ builder.requests <= 2 * builder.predicts)
    /\ (builder.pc = "request") ~> (builder.pc = "done")

\* C10 witness: a build call that ended after 1 + n + 2 predict calls of two
\* backend requests each
C10_Witness ==
    /\ builder.pc = "done"
    /\ NumRecords >= 1
    /\ builder.predicts = 1 + NumRecords + 2
    /\ builder.requests = 2 * builder.predicts

(***************************************************************************)
(* Schema validation on its own: OperationEntry.model_validate on records  *)
(* given one after another in one process, report_builder.py:28-65.        *)
(***************************************************************************)
\* number of validations made on their own
MaxValidations == 2

\* the values a record may give for a field with a vocabulary: a member, the
\* sentinel, the empty string, a value outside the vocabulary
Provided(member, foreign) == {PyStr(member), PyStr(Sentinel), PyStr(""), PyStr(foreign)}
\* the items a record may have for an optional field: none, None, or a value
Optional(key, member, foreign) ==
    {<<>>, <<Item(key, PyNone)>>} \cup {<<Item(key, v)>> : v \in Provided(member, foreign)}

Candidates ==
    {PyDict(<<Item("Data", PyStr("01.05.2024")), Item("Operaciya", operation),
              Item("Dannye", PyStr("fragment"))>> \o culture \o division) :
        operation \in Provided("Sev", "Pahota"),
        culture \in Optional("Kultura", "Pshenica", "Ris"),
        division \in Optional("Podrazdelenie", "AOR", "Mars")}

\* report_builder.py:28-65: OperationEntry.model_validate(d)
model_validate(d) ==
    /\ validations < MaxValidations
    /\ validations' = validations + 1
    /\ entry' = d
    /\ verdict' = IF OperationEntry_valid(d, allowed_entities) THEN "accepted" ELSE "rejected"
    /\ allowed_entities' = Validated(allowed_entities, PyList(<<d>>))
    /\ UNCHANGED outsideValidate

NextValidate == \E d \in Candidates : model_validate(d)

\* the validations of one process, no pipeline running
SpecValidate == InitBuild /\ [][NextValidate]_vars

\* the value record d gives for key k is in the loaded vocabulary list or is
\* the sentinel
InVocabulary(d, k, list) == Get(d, k).s = Sentinel \/ InList(Get(d, k).s, list)
\* the optional field k is absent from d (or given as None)
Absent(d, k) == ~Has(d, k) \/ Get(d, k).type = "NoneType"

\* C11 as claimed: a record is accepted if and only if its operation is in
\* the operation vocabulary or is the sentinel, and each of culture and
\* division is absent or is in its vocabulary or is the sentinel; every other
\* provided value, the empty string included, makes validation fail.
C11_AcceptsExactlyVocabulary ==
    verdict # "none" =>
       (verdict = "accepted" <=>
          /\ InVocabulary(entry, "Operaciya", LoadedEntities.type)
          /\ Absent(entry, "Kultura") \/ InVocabulary(entry, "Kultura", LoadedEntities.culture)
          /\ Absent(entry, "Podrazdelenie")
                \/ InVocabulary(entry, "Podrazdelenie", LoadedEntities.division))

\* C12 as claimed: the three vocabulary lists are never mutated after
\* loading: after any validations and pipeline runs each holds exactly the
\* elements it held after loading.
C12_VocabularyNeverMutated == allowed_entities = LoadedEntities

(***************************************************************************)
(* AgroReportTelegramBot: its handlers.  Updates are handled concurrently  *)
(* (telegram_bot.py:384); a handler runs alone between two awaits.  Lists  *)
(* are objects: objects[r] is the object with reference r, and the fields  *)
(* that hold a list hold its reference.                                    *)
(***************************************************************************)
\* context.user_data.pop("awaiting_correction", None) and, wrongly, the session
PopAwaitingAndSession(ud) ==
    [ud EXCEPT !.awaiting_correction = FALSE, !.corrections = NoCorrections]
\* telegram_bot.py:158, 166: context.user_data.pop("awaiting_correction", None)
PopAwaiting(ud) == [ud EXCEPT !.awaiting_correction = FALSE]
\* the handler step of c sent text
Replies(c, text) == replied' = [replied EXCEPT ![c] = text]

\* the mutant works on a copy and leaves the object as it is
StoredInCopy(r, value) == objects
\* the object r is replaced by value
Stored(r, value) == [objects EXCEPT ![r] = value]

\* telegram_bot.py:238-281: prompt on a submission, up to the await of
\* send_and_receive
prompt_submit(c) ==
    /\ is_allowed(config, c)
    /\ ~user_data[c].awaiting_correction
    /\ submissions < MaxSubmissions
    /\ submissions' = submissions + 1
    /\ \E query_text \in Texts : last_report_data' = query_text
    /\ waiting' = [waiting EXCEPT ![c] = @ + 1]
    /\ Replies(c, "forming")
    /\ UNCHANGED <<outsideBot, last_report, user_data, objects, offered, database,
                   answers, handled, received>>

\* telegram_bot.py:281-368: send_and_receive returns response, a new object
prompt_response(c) ==
    /\ waiting[c] > 0
    /\ waiting' = [waiting EXCEPT ![c] = @ - 1]
    /\ \E response \in Responses :
          LET r == Len(objects) + 1
              queue == corrections_queue(response)
          IN  /\ last_report' = r
              /\ received' = [received EXCEPT ![c] = response]
              /\ IF PyEq(response, ERROR_TEXT)
                    THEN /\ objects' = Append(objects, response)
                         /\ last_report_data' = ""
                         /\ Replies(c, "error")
                         /\ UNCHANGED <<user_data, offered, answers>>
                 ELSE IF queue # <<>>
                    THEN /\ objects' = Append(objects, response)
                         /\ user_data' = [user_data EXCEPT
                               ![c].corrections = [present |-> TRUE, entries |-> r,
                                                   queue |-> queue, current_index |-> 0],
                               ![c].awaiting_correction = TRUE]
                         /\ answers' = [answers EXCEPT ![c] = <<>>]
                         /\ Replies(c, "prompt")
                         /\ UNCHANGED <<last_report_data, offered>>
                 ELSE /\ objects' = Append(objects, finalize(response))
                      /\ IF finalize_raises(response)
                            THEN /\ Replies(c, "none")
                                 /\ UNCHANGED <<last_report_data, offered>>
                            ELSE /\ offered' = [offered EXCEPT ![c] =
                                       [present |-> TRUE, batch |-> finalize(response),
                                        closing |-> Superseded(offered[c].closing)]]
                                 /\ last_report_data' = ""
                                 /\ Replies(c, "offer")
                      /\ UNCHANGED <<user_data, answers>>
    /\ UNCHANGED <<outsideBot, database, submissions, handled>>

\* telegram_bot.py:149-235: prompt on a text message while a correction is
\* awaited
prompt_answer(c) ==
    /\ is_allowed(config, c)
    /\ user_data[c].awaiting_correction
    /\ \E text \in Inputs :
          LET user_input == strip(text)
              correction_data == user_data[c].corrections
              current_index == correction_data.current_index
              queue == correction_data.queue
              r == correction_data.entries
          IN  IF ~correction_data.present \/ current_index >= Len(queue)
                 THEN /\ user_data' = [user_data EXCEPT ![c] = PopAwaiting(@)]
                      /\ Replies(c, "none")
                      /\ UNCHANGED <<objects, offered, answers, last_report_data>>
                 ELSE LET entry_idx == queue[current_index + 1][1]
                          key == queue[current_index + 1][2]
                          entries == [objects[r] EXCEPT !.items[entry_idx + 1] =
                                         SetItem(@, key, PyStr(user_input))]
                      IN  /\ answers' = [answers EXCEPT ![c] = Append(@, user_input)]
                          /\ IF current_index + 1 < Len(queue)
                                THEN /\ objects' = Stored(r, entries)
                                     /\ user_data' = [user_data EXCEPT
                                           ![c].corrections.current_index = @ + 1]
                                     /\ Replies(c, "prompt")
                                     /\ UNCHANGED <<offered, last_report_data>>
                             ELSE /\ objects' = Stored(r, finalize(entries))
                                  /\ IF finalize_raises(entries)
                                        THEN /\ user_data' = [user_data EXCEPT
                                                   ![c].corrections.current_index = @ + 1,
                                                   ![c].awaiting_correction = FALSE]
                                             /\ Replies(c, "none")
                                             /\ UNCHANGED <<offered, last_report_data>>
                                        ELSE /\ user_data' = [user_data EXCEPT
                                                   ![c].corrections.current_index = @ + 1,
                                                   ![c].awaiting_correction = FALSE,
                                                   ![c].corrected_entries = r]
                                             /\ offered' = [offered EXCEPT ![c] =
                                                   [present |-> TRUE,
                                                    batch |-> finalize(entries),
                                                    closing |-> Superseded(offered[c].closing)]]
                                             /\ last_report_data' = ""
                                             /\ Replies(c, "offer")
    /\ UNCHANGED <<outsideBot, last_report, waiting, database, submissions, handled,
                   received>>

\* the mutant takes the message for a submission
prompt_no_text_submits(c) ==
    /\ is_allowed(config, c)
    /\ user_data[c].awaiting_correction
    /\ submissions < MaxSubmissions
    /\ submissions' = submissions + 1
    /\ waiting' = [waiting EXCEPT ![c] = @ + 1]
    /\ Replies(c, "forming")
    /\ UNCHANGED <<outsideBot, last_report, last_report_data, user_data, objects,
                   offered, database, answers, handled, received>>

\* telegram_bot.py:149-152: prompt on a message without text (a photo or a
\* document, with a caption or not) while a correction is awaited
prompt_no_text(c) ==
    /\ is_allowed(config, c)
    /\ user_data[c].awaiting_correction
    /\ Replies(c, "enter a value")
    /\ UNCHANGED <<outsideBot, last_report, last_report_data, user_data, objects, waiting,
                   offered, database, submissions, answers, handled, received>>

\* telegram_bot.py:144-145, 89-92: prompt on a message of a user that
\* is_allowed turns away
prompt_disallowed(c) ==
    /\ ~is_allowed(config, c)
    /\ Replies(c, "disallowed")
    /\ UNCHANGED <<outsideBot, last_report, last_report_data, user_data, objects, waiting,
                   offered, database, submissions, answers, handled, received>>

\* db/interaction.py:25-37: one bulk insert of the rows built from records
insert_objects(chat, list, records) ==
    database' = Append(database, [chat |-> chat, list |-> list,
                                  rows |-> mapped_records(records)])

\* telegram_bot.py:114-116: the list button_callback works on
Chosen(c) ==
    LET corrected == user_data[c].corrected_entries IN
        IF corrected # 0 /\ objects[corrected].items # <<>> THEN corrected ELSE last_report

\* telegram_bot.py:109-138: the operator of c presses a button of the offer.
\* whole: no other update is handled while the handler waits for
\* send_message and edit_message_reply_markup, the step is the whole handler;
\* otherwise the step ends at the await of send_message, the buttons stay
button_callback_until(c, whole) ==
    /\ offered[c].present
    /\ \E data \in {"final_yes", "final_no"} :
          IF data = "final_yes"
             THEN LET r == Chosen(c) IN
                  /\ last_report' = r
                  /\ objects' = Stored(r, reparse(objects[r]))
                  /\ IF reparse_raises(objects[r])
                        THEN /\ handled' = [handled EXCEPT ![c] = "raised"]
                             /\ Replies(c, "none")
                             /\ UNCHANGED <<database, user_data, offered>>
                        ELSE /\ insert_objects(c, r, reparse(objects[r]))
                             /\ Replies(c, "written")
                             /\ handled' = [handled EXCEPT ![c] = data]
                             /\ user_data' = IF whole
                                   THEN [user_data EXCEPT ![c].corrected_entries = 0]
                                   ELSE user_data
                             /\ offered' = IF whole
                                   THEN [offered EXCEPT ![c] = NotOffered]
                                   ELSE [offered EXCEPT ![c].closing = "sent"]
             ELSE /\ handled' = [handled EXCEPT ![c] = data]
                  /\ Replies(c, "not written")
                  /\ user_data' = IF whole
                        THEN [user_data EXCEPT ![c].corrected_entries = 0]
                        ELSE user_data
                  /\ offered' = IF whole
                        THEN [offered EXCEPT ![c] = NotOffered]
                        ELSE [offered EXCEPT ![c].closing = "sent"]
                  /\ UNCHANGED <<last_report, objects, database>>
    /\ UNCHANGED <<outsideBot, last_report_data, waiting, submissions, answers,
                   received>>

button_callback(c) == button_callback_until(c, TRUE)

\* telegram_bot.py:109-128: the handler of a press up to its await of
\* send_message
button_callback_sent(c) == button_callback_until(c, FALSE)

\* telegram_bot.py:137: a handler of a press goes on after send_message and
\* drops the corrected list of the conversation
button_callback_pop(c) ==
    /\ offered[c].closing \in {"sent", "stale"}
    /\ user_data' = [user_data EXCEPT ![c].corrected_entries = 0]
    /\ offered' = [offered EXCEPT ![c].closing = IF @ = "sent" THEN "popped" ELSE "no"]
    /\ UNCHANGED <<outsideBot, last_report, last_report_data, objects, waiting, database,
                   submissions, answers, handled, received, replied>>

\* telegram_bot.py:138: edit_message_reply_markup takes the buttons away
button_callback_edit(c) ==
    /\ offered[c].closing = "popped"
    /\ offered' = [offered EXCEPT ![c] = NotOffered]
    /\ UNCHANGED <<outsideBot, last_report, last_report_data, user_data, objects, waiting,
                   database, submissions, answers, handled, received, replied>>

ChatStep(c) ==
    \/ prompt_submit(c)
    \/ prompt_response(c)
    \/ prompt_answer(c)
    \/ prompt_no_text(c)
    \/ button_callback(c)

NextBot == \E c \in Chats : ChatStep(c)

\* the bot process with its conversations; the Workers are behind send_and_receive
SpecBot == InitBuild /\ [][NextBot]_vars

\* the value of column k of a persisted row is a vocabulary entry or the sentinel
RowInVocabulary(row, k, list) ==
    Has(row, k) => Get(row, k).s = Sentinel \/ InList(Get(row, k).s, list)

\* C13 as claimed: every record handed to insert_objects has an operation, a
\* division and a culture that are in the allowed vocabulary or are the
\* sentinel, also when the operator supplied them in a correction session
C13_PersistedInVocabulary ==
    \A i \in DOMAIN database : \A j \in DOMAIN database[i].rows :
        /\ RowInVocabulary(database[i].rows[j], "operation", LoadedEntities.type)
        /\ RowInVocabulary(database[i].rows[j], "unit", LoadedEntities.division)
        /\ RowInVocabulary(database[i].rows[j], "cultura", LoadedEntities.culture)

\* the step in which the prompt call of c gets its pipeline result
GotResponse(c) == waiting'[c] < waiting[c]
\* a field of a record of the list equals the sentinel
HasSentinel(list) ==
    \E i \in DOMAIN list.items : \E j \in DOMAIN list.items[i].items :
        list.items[i].items[j].value = PyStr(Sentinel)
\* the place of key k among the fields of record e
KeyIndex(e, k) == CHOOSE j \in DOMAIN e.items : e.items[j].key = k
\* queue holds exactly the (record index, field) pairs of list whose value is
\* the sentinel, each once, by record index and then by field order
ExactQueue(queue, list) ==
    /\ \A a \in DOMAIN queue :
          /\ queue[a][1] + 1 \in DOMAIN list.items
          /\ Has(list.items[queue[a][1] + 1], queue[a][2])
          /\ Get(list.items[queue[a][1] + 1], queue[a][2]) = PyStr(Sentinel)
    /\ \A i \in DOMAIN list.items : \A j \in DOMAIN list.items[i].items :
          list.items[i].items[j].value = PyStr(Sentinel)
             => \E a \in DOMAIN queue : queue[a] = <<i - 1, list.items[i].items[j].key>>
    /\ \A a, b \in DOMAIN queue :
          a < b => \/ queue[a][1] < queue[b][1]
                   \/ /\ queue[a][1] = queue[b][1]
                      /\ KeyIndex(list.items[queue[a][1] + 1], queue[a][2])
                            < KeyIndex(list.items[queue[b][1] + 1], queue[b][2])
\* the step of c created a session on the list r
SessionCreated(c, r) ==
    /\ user_data'[c].awaiting_correction
    /\ user_data'[c].corrections.present
    /\ user_data'[c].corrections.entries = r
    /\ user_data'[c] # user_data[c]
\* no record of the list has the source fragment
FragmentDropped(list) == \A i \in DOMAIN list.items : ~Has(list.items[i], "Dannye")
\* the step of c offered the list r with the accept/reject buttons
OfferedNow(c, r) ==
    /\ offered'[c].present
    /\ offered'[c].batch = objects'[r]
    /\ FragmentDropped(objects'[r])

\* the first part of C14: a session exactly for a result with a sentinel
SessionIffSentinel ==
    [][\A c \in Chats :
          GotResponse(c) /\ objects'[last_report'].type = "list" =>
             LET r == last_report' IN
                /\ SessionCreated(c, r) <=> HasSentinel(objects'[r])
                /\ SessionCreated(c, r) =>
                      /\ ExactQueue(user_data'[c].corrections.queue, objects'[r])
                      /\ user_data'[c].corrections.current_index = 0]_vars

\* C14 as claimed: a correction session is created for a pipeline result
\* exactly when a field of a record equals the sentinel, its queue holds
\* exactly the sentinel (record index, field) pairs in record and field order
\* with the cursor at 0, and a result without a sentinel is finalized and
\* offered for commit directly
C14_SessionOrDirectOffer ==
    [][\A c \in Chats :
          GotResponse(c) /\ objects'[last_report'].type = "list" =>
             LET r == last_report' IN
                /\ SessionCreated(c, r) <=> HasSentinel(objects'[r])
                /\ SessionCreated(c, r) =>
                      /\ ExactQueue(user_data'[c].corrections.queue, objects'[r])
                      /\ user_data'[c].corrections.current_index = 0
                /\ ~HasSentinel(objects'[r]) => OfferedNow(c, r)]_vars

\* the step in which an answer of the operator of c is stored
Answered(c) == answers'[c] # answers[c] /\ answers'[c] # <<>>
\* Resolved: the finalized list of the session is stored and offered with the
\* accept/reject choice
Resolved(c) ==
    /\ ~user_data'[c].awaiting_correction
    /\ user_data'[c].corrected_entries = user_data'[c].corrections.entries
    /\ OfferedNow(c, user_data'[c].corrections.entries)
\* the field named by queue entry i holds the i-th answer
HoldsAnswer(c, i) ==
    LET session == user_data'[c].corrections
        record == objects'[session.entries].items[session.queue[i][1] + 1]
    IN  Has(record, session.queue[i][2])
           /\ Get(record, session.queue[i][2]) = PyStr(answers'[c][i])

\* C15 as claimed: a session with a queue of length N needs exactly N answers
\* to reach Resolved: after fewer than N answers it is still awaiting, after
\* the N-th answer the finalized list is stored and offered, and the field of
\* queue entry i holds the i-th answer
C15_ResolvedAfterNAnswers ==
    [][\A c \in Chats :
          Answered(c) =>
             LET N == Len(user_data'[c].corrections.queue)
                 n == Len(answers'[c])
             IN  /\ n < N => user_data'[c].awaiting_correction /\ offered'[c] = offered[c]
                 /\ n = N => Resolved(c)
                 /\ n <= N
                 /\ \A i \in 1 .. n : HoldsAnswer(c, i)]_vars

\* the step in which the prompt call of c ran the finalization loop
Finalizing(c) ==
    \/ GotResponse(c) /\ received'[c].type = "list" /\ ~HasSentinel(received'[c])
    \/ Answered(c) /\ Len(answers'[c]) = Len(user_data'[c].corrections.queue)
\* the list that step worked on, as it was when the loop began
BeforeFinalize(c) ==
    IF GotResponse(c) THEN received'[c]
    ELSE LET session == user_data[c].corrections
             last == session.queue[Len(session.queue)]
         IN  [objects[session.entries] EXCEPT !.items[last[1] + 1] =
                 SetItem(@, last[2], PyStr(answers'[c][Len(session.queue)]))]
\* and as the loop left it
AfterFinalize(c) ==
    IF GotResponse(c) THEN objects'[last_report']
    ELSE objects'[user_data[c].corrections.entries]
IsNumber(v) == v.type \in {"int", "float"}
\* after is before without fragments, with both yields of every record
\* divided by 100 when a record is a harvest and without yields otherwise
FinalizedAsClaimed(before, after) ==
    /\ Len(after.items) = Len(before.items)
    /\ FragmentDropped(after)
    /\ \A i \in DOMAIN before.items : \A y \in DOMAIN YieldKeys :
          IF needs_val(before)
             THEN /\ Has(after.items[i], YieldKeys[y])
                  /\ IsNumber(Get(before.items[i], YieldKeys[y]))
                  /\ Get(after.items[i], YieldKeys[y])
                        = Div100(Get(before.items[i], YieldKeys[y]))
             ELSE ~Has(after.items[i], YieldKeys[y])

\* C16 as claimed: finalization, after a completed correction session and on
\* the path without corrections, drops the source fragment from every record
\* and, if a record is a harvest, keeps both yields of every record divided
\* by 100, else removes both yields from every record
C16_FinalizationYields ==
    [][\A c \in Chats :
          Finalizing(c) => FinalizedAsClaimed(BeforeFinalize(c), AfterFinalize(c))]_vars

\* the step in which the last answer of the session of c was stored and the
\* finalization loop of the correction branch ran
CorrectionFinalizing(c) ==
    Answered(c) /\ Len(answers'[c]) = Len(user_data'[c].corrections.queue)
HasYield(e) == \E y \in DOMAIN YieldKeys : Has(e, YieldKeys[y])

\* C17 as claimed, record by record: after the finalization of a correction
\* session a record whose operation is not the harvest type has no yield field
C17_NonHarvestRecordHasNoYield ==
    [][\A c \in Chats :
          CorrectionFinalizing(c) =>
             \A i \in DOMAIN AfterFinalize(c).items :
                Get(AfterFinalize(c).items[i], "Operaciya") # PyStr(Harvest)
                   => ~HasYield(AfterFinalize(c).items[i])]_vars

\* C17 amended: if no record of the list is a harvest, then after the
\* finalization of a correction session no record of it has a yield field
C17_NoHarvestNoYield ==
    [][\A c \in Chats :
          CorrectionFinalizing(c) /\ ~needs_val(AfterFinalize(c)) =>
             \A i \in DOMAIN AfterFinalize(c).items :
                ~HasYield(AfterFinalize(c).items[i])]_vars

\* a correction session was finalized on a list without a harvest record
C17_Witness ==
    \E c \in Chats :
        /\ answers[c] # <<>>
        /\ user_data[c].corrected_entries # 0
        /\ ~needs_val(objects[user_data[c].corrected_entries])
        /\ \A i \in DOMAIN objects[user_data[c].corrected_entries].items :
              ~HasYield(objects[user_data[c].corrected_entries].items[i])

\* the step in which a button press of the operator of c was handled
Pressed(c) ==
    /\ offered[c].present
    /\ \/ handled'[c] # handled[c]
       \/ database' # database /\ database'[Len(database')].chat = c
       \/ offered[c].closing # "sent" /\ offered'[c].closing = "sent"
\* the rows of one bulk insert are the records of list, in order, with the
\* day-month-year date of each reparsed into a datetime
InsertedFrom(rows, list) ==
    /\ Len(rows) = Len(list.items)
    /\ \A i \in DOMAIN rows :
          /\ Get(list.items[i], "Data").type = "str"
          /\ Get(list.items[i], "Data").s \in DOMAIN DayMonthYear
          /\ Get(rows[i], "date") = PyDatetime(DayMonthYear[Get(list.items[i], "Data").s])

\* C18 as claimed: on accept the date string of every record of the batch is
\* reparsed from day-month-year into a datetime and the whole batch goes to
\* insert_objects in one bulk insert; on reject nothing is persisted
C18_AcceptPersistsRejectDoesNot ==
    [][\A c \in Chats :
          Pressed(c) =>
             \/ /\ handled'[c] = "final_no"
                /\ database' = database
             \/ /\ handled'[c] = "final_yes"
                /\ Len(database') = Len(database) + 1
                /\ SubSeq(database', 1, Len(database)) = database
                /\ InsertedFrom(database'[Len(database')].rows, objects[Chosen(c)])]_vars

\* the offer c holds stems from the last thing c itself did: the list of its
\* resolved session, or else the finalized list of its last pipeline result
OwnOffer(c) ==
    /\ received[c].type = "list"
    /\ offered[c].batch =
          IF user_data[c].corrected_entries # 0
             THEN objects[user_data[c].corrected_entries]
             ELSE finalize(received[c])

\* C19 as claimed: when an operator presses accept, the batch persisted is
\* the list that was offered to that same conversation, whatever the other
\* conversations submitted, corrected or pressed in between
C19_PersistsOwnOffer ==
    [][\A c \in Chats :
          Pressed(c) /\ OwnOffer(c) /\ database' # database =>
             database'[Len(database')].rows = mapped_records(reparse(offered[c].batch))]_vars

\* C20 as claimed: after the accept or reject choice of the operator of c has
\* been handled, the conversation holds no session state: the session
\* (entries, queue, cursor) and the corrected list are gone from user_data,
\* and with them every record that still has its source fragment
C20_SessionDiscarded ==
    [][\A c \in Chats :
          /\ Pressed(c)
          /\ handled'[c] \in {"final_yes", "final_no"}
          /\ ~user_data[c].awaiting_correction
          =>
             /\ ~user_data'[c].awaiting_correction
             /\ user_data'[c].corrected_entries = 0
             /\ ~user_data'[c].corrections.present]_vars

(***************************************************************************)
(* The guards of the correction branch, telegram_bot.py:156-167.  The      *)
(* handler is given the conversation's user_data by the framework; here it *)
(* is run on every shape of it the guards test for.                        *)
(***************************************************************************)
\* the session on the list r with its cursor at index
SessionAt(r, index) ==
    [present |-> TRUE, entries |-> r, queue |-> corrections_queue(Unresolved),
     current_index |-> index]
\* user_data as the correction branch may find it: no flag; the flag without
\* a session; the flag with the cursor at the queue end; an open session
Found(r) ==
    {EmptyUserData,
     [EmptyUserData EXCEPT !.awaiting_correction = TRUE],
     [EmptyUserData EXCEPT !.awaiting_correction = TRUE,
                           !.corrections = SessionAt(r, Len(corrections_queue(Unresolved)))],
     [EmptyUserData EXCEPT !.awaiting_correction = TRUE,
                           !.corrections = SessionAt(r, 0)]}
InitGuards ==
    /\ InitOther
    /\ \A g \in Gateways : gpc[g] = "off"
    /\ objects = <<PyList(<<>>)>> \o [c \in Chats |-> Unresolved]
    /\ user_data \in [Chats -> UNION {Found(r) : r \in 2 .. NumChats + 1}]
    /\ \A c \in Chats : user_data[c] \in Found(c + 1)
    /\ json_string = NoText
    /\ pts = <<>>
    /\ config = Open
NextGuards == \E c \in Chats : prompt_answer(c)
SpecGuards == InitGuards /\ [][NextGuards]_vars

\* the flag is set but the session is missing or its cursor is at the queue end
Stale(c) ==
    /\ user_data[c].awaiting_correction
    /\ \/ ~user_data[c].corrections.present
       \/ user_data[c].corrections.current_index >= Len(user_data[c].corrections.queue)
\* a handler step of c
Handled(c) == user_data'[c] # user_data[c] \/ replied'[c] # replied[c]
\* the bot's own steps never leave a conversation in such a state
NeverStale == \A c \in Chats : ~Stale(c)

C22_OpenSessionKept ==
    [][\A c \in Chats :
          user_data[c].awaiting_correction /\ user_data'[c].awaiting_correction =>
             /\ user_data'[c].corrections.entries = user_data[c].corrections.entries
             /\ user_data'[c].corrections.queue = user_data[c].corrections.queue
             /\ user_data'[c].corrections.current_index
                   >= user_data[c].corrections.current_index]_vars

(***************************************************************************)
(* The read path of the persistence layer, db/models.py and                *)
(* db/interaction.py, and the date column as app/dashboard.py prints it.   *)
(***************************************************************************)
\* the value of column k of a row; a column the insert left out holds its
\* default, db/models.py:20-26
Column(row, k) ==
    IF Has(row, k) THEN Get(row, k)
    ELSE IF k \in {"val_per_day", "val_per_operation"} THEN PyInt(0) ELSE PyNone
\* db/models.py:29-40: OperationInfo.to_dict of the row with primary key id
to_dict(id, row) ==
    PyDict(<<Item("id", PyInt(id)), Item("Data", Column(row, "date")),
             Item("Podrazdelenie", Column(row, "unit")),
             Item("Operaciya", Column(row, "operation")),
             Item("Kultura", Column(row, "cultura")),
             Item("Za den, ga", Column(row, "GA_per_day")),
             Item("S nachala operacii, ga", Column(row, "GA_per_operation")),
             Item("Val za den, c", Column(row, "val_per_day")),
             Item("Val s nachala, c", Column(row, "val_per_operation"))>>)
\* the rows of the table: those of every bulk insert, in order
RECURSIVE TableFrom(_, _)
TableFrom(inserts, i) ==
    IF i > Len(inserts) THEN <<>> ELSE inserts[i].rows \o TableFrom(inserts, i + 1)
\* db/interaction.py:17-22: get_all_operations, the records of the DataFrame
get_all_operations(inserts) ==
    LET table == TableFrom(inserts, 1) IN [id \in DOMAIN table |-> to_dict(id, table[id])]
\* app/dashboard.py:50: .dt.strftime("%d.%m.%Y") of a datetime
dt_strftime(v) ==
    PyStr(CASE v.n = 20240501 -> "01.05.2024"
            [] v.n = 20240502 -> "02.05.2024"
            [] v.n = 20240105 -> "05.01.2024"
            [] v.n = 20240205 -> "05.02.2024"
            [] OTHER -> "")

\* the step in which the accept of c was persisted
Persisted(c) == Pressed(c) /\ database' # database
\* the records read back for the last bulk insert
Reloaded ==
    LET all == get_all_operations(database')
        n == Len(database'[Len(database')].rows)
    IN  SubSeq(all, Len(all) - n + 1, Len(all))

Uncleaned == IF cleaned = <<>> THEN json_string.chars ELSE cleaned[Len(cleaned)]

clean ==
    /\ json_string.kind # "none"
    /\ Len(cleaned) < MaxPasses
    /\ cleaned' = Append(cleaned, clean_chars(Uncleaned))
    /\ UNCHANGED <<json_string, outsideClean>>

InitClean ==
    /\ InitOther
    /\ \A g \in Gateways : gpc[g] = "off"
    /\ user_data = [c \in Chats |-> EmptyUserData]
    /\ objects = <<PyList(<<>>)>>
    /\ json_string \in CleanInputs
    /\ pts = <<>>
    /\ config = Open
NextClean == clean
SpecClean == InitClean /\ [][NextClean]_vars

\* C24 as claimed: clean_string is idempotent on valid JSON that satisfies the
\* schema, also when string values hold backslash escapes such as \u
\* sequences or adjacent closing and opening brackets
C24_CleanIdempotent ==
    json_string.kind = "json" /\ Len(cleaned) >= 2 => cleaned[2] = cleaned[1]

\* the number of places of s where a closing brace or bracket is followed,
\* at once or after whitespace only, by an opening one
RECURSIVE Pairs(_)
Pairs(s) == IF s = <<>> THEN 0 ELSE (IF Adjacent(s) THEN 1 ELSE 0) + Pairs(Tail(s))
\* the whitespace characters that stand inside those places
RECURSIVE PairBlanks(_)
PairBlanks(s) ==
    IF s = <<>> THEN 0 ELSE (IF Adjacent(s) THEN Blanks(Tail(s)) ELSE 0) + PairBlanks(Tail(s))
\* the number of commas of s
RECURSIVE Commas(_)
Commas(s) == IF s = <<>> THEN 0 ELSE (IF s[1] = "," THEN 1 ELSE 0) + Commas(Tail(s))
\* s without its commas and whitespace
RECURSIVE Squeezed(_)
Squeezed(s) ==
    IF s = <<>> THEN <<>>
    ELSE (IF s[1] \in Whitespace \cup {","} THEN <<>> ELSE <<s[1]>>) \o Squeezed(Tail(s))
\* the text the comma rule of the k-th application is given, without the
\* outer whitespace that strip removes afterwards
Uncommaed(k) ==
    strip_chars(before_commas(IF k = 1 THEN json_string.chars ELSE cleaned[k - 1]))
\* out is text with exactly one comma put in each of those places
OneCommaEach(text, out) ==
    /\ Pairs(out) = 0
    /\ Squeezed(out) = Squeezed(text)
    /\ Commas(out) = Commas(text) + Pairs(text)
    /\ Len(out) = Len(text) + Pairs(text) - PairBlanks(text)
    /\ Pairs(text) = 0 => out = text

\* C28: clean_string puts exactly one comma between a closing brace or
\* bracket and an opening one that follows it at once or after whitespace
\* only, so that {...}{...} becomes {...},{...}; a text that has the comma
\* already is not changed by this rule
C28_OneCommaBetweenRecords ==
    \A k \in 1..Len(cleaned) : OneCommaEach(Uncommaed(k), cleaned[k])
\* two records written one after the other, with whitespace between, cleaned
C28_Witness ==
    /\ json_string.kind = "concatenated"
    /\ Len(cleaned) >= 1
    /\ Pairs(Uncommaed(1)) = 2
    /\ PairBlanks(Uncommaed(1)) > 0
    /\ \E i \in 1..(Len(cleaned[1]) - 2) :
          SubSeq(cleaned[1], i, i + 2) = <<"}", ",", "{">>

(***************************************************************************)
(* The order of the inference calls of one build call.                     *)
(***************************************************************************)
\* the repair calls of stage k
Repairs(k) == builder.json_fixes[k] + builder.field_fixes[k]
\* stage k has a validated output
Passed(k) == builder.status[k] = "ok" \/ builder.repaired[k] = "ok"

\* C25: the inference calls of a build call are made one after the other:
\* the stage-1 call and its validation, with a repair call if any, are over
\* before an enrich call is made; stage 2 makes one enrich call per record of
\* the validated stage-1 output, in the order of the records, and the array
\* it validates holds the raw outputs of those calls in the same order.
C25_CallsInOrder ==
    /\ builder.stage >= 1 =>
          builder.predicts = 1 + Repairs(1) + Len(builder.calls) + Repairs(2)
    /\ builder.calls # <<>> => builder.stage >= 2 /\ Passed(1)
    /\ Len(builder.calls) <= NumRecords
    /\ \A i \in DOMAIN builder.calls :
          /\ builder.calls[i].report = builder.stage_one.items[i]
          /\ i < Len(builder.calls) => builder.calls[i].raw # ""
    /\ (builder.pc = "request" /\ builder.call = "enrich") =>
          /\ builder.calls # <<>>
          /\ builder.calls[Len(builder.calls)].raw = ""
          /\ builder.merged = <<>> /\ Repairs(2) = 0
    /\ (builder.status[2] # "" \/ Repairs(2) > 0) => builder.merged # <<>>
    /\ builder.merged # <<>> =>
          /\ Len(builder.calls) = NumRecords
          /\ json_loads(builder.merged[1]) =
                PyList([i \in DOMAIN builder.calls |-> PyStr(builder.calls[i].raw)])
          /\ \A i \in DOMAIN builder.calls : builder.calls[i].raw # ""
\* C25 witness: two records came out of stage 1, two enrich calls gave
\* different outputs, and the array of both was validated
C25_Witness ==
    /\ builder.pc = "done"
    /\ Len(builder.calls) = 2
    /\ builder.calls[1].report # builder.calls[2].report
    /\ builder.calls[1].raw # builder.calls[2].raw
    /\ builder.merged # <<>>
    /\ builder.status[2] # ""

(***************************************************************************)
(* The output of a repair call.                                            *)
(***************************************************************************)
\* the validated output of stage k
StageOutput(k) == IF k = 1 THEN builder.stage_one ELSE builder.result
\* what the try block of _validate makes of the text the repair call of
\* stage k returned
AsFirstPass(k) == FirstPass(Content(builder.correction[k]), allowed_entities)

\* C26 as claimed: the output of a repair call goes through the steps of a
\* first-pass output (JSON parse with re-parse of string elements, ISO date
\* reformat, schema validation): it is accepted exactly when the first pass
\* accepts the same text, and gives the same validated records.
C26_RepairedLikeFirstPass ==
    \A k \in Stages :
       builder.repaired[k] # "" =>
          /\ (builder.repaired[k] = "ok") = (AsFirstPass(k).status = "ok")
          /\ builder.repaired[k] = "ok" => StageOutput(k) = AsFirstPass(k).value

(***************************************************************************)
(* The date loop of _validate.                                             *)
(***************************************************************************)
\* the text stage k handed to _validate, if it did
StageText(k) == IF k = 1 THEN builder.initial ELSE builder.merged
\* report_builder.py:107-113: the list the date loop goes through
Parsed(text) ==
    LET parsed == json_loads(clean_string(text)) IN
        IF parsed.type # "list" THEN parsed
        ELSE PyList([i \in DOMAIN parsed.items |->
                       IF parsed.items[i].type = "str"
                          THEN json_loads(clean_string(Content(parsed.items[i].s)))
                          ELSE parsed.items[i]])
\* the text parses as a JSON array of records
IsRecordArray(text) ==
    /\ ~ContainsRefusal(clean_string(text))
    /\ ~JSONDecodeError(clean_string(text))
    /\ json_loads(clean_string(text)).type = "list"
    /\ \A i \in DOMAIN json_loads(clean_string(text)).items :
          LET item == json_loads(clean_string(text)).items[i] IN
              item.type = "str" => ~JSONDecodeError(clean_string(Content(item.s)))
    /\ \A i \in DOMAIN Parsed(text).items : Parsed(text).items[i].type = "dict"
\* the date of record d as the claim has it after the loop
DateAsClaimed(d) ==
    IF Get(d, "Data").type = "str" /\ Get(d, "Data").s \in IsoDates
       THEN PyStr(strftime(Get(d, "Data").s))
       ELSE Get(d, "Data")

\* C27 as claimed: when the output of a stage parses as a JSON array of
\* records, the stage is not aborted by the date loop: the records reach
\* schema validation, also a record without a usable date value, and in
\* the validated output a date that parses as ISO-8601 is in day-month-year
\* form and any other date is as it was.
C27_DatesReformattedOrLeft ==
    \A k \in Stages :
       (StageText(k) # <<>> /\ IsRecordArray(StageText(k)[1])) =>
          /\ builder.status[k] \in {"ok", "ValidationError"}
          /\ builder.status[k] = "ok" =>
                \A i \in DOMAIN StageOutput(k).items :
                   Get(StageOutput(k).items[i], "Data")
                      = DateAsClaimed(Parsed(StageText(k)[1]).items[i])

(***************************************************************************)
(* The retry of predict.                                                   *)
(***************************************************************************)
\* C29 as claimed: predict makes a second request at most once, after a 60 s
\* sleep, and only when the first request gave the rate-limit signal; any
\* other failure of the first request, and a failure of the second, leaves
\* predict as an exception and no further request is made.
C29_RetryOnlyOnRateLimit ==
    LET failures == builder.failures
        propagated == builder.pc = "done" /\ builder.outcome.kind = "raise"
                     /\ builder.outcome.exc = "backend"
    IN  /\ Len(failures) <= 2 /\ builder.attempt <= 2
        /\ builder.backoffs =
              (IF failures # <<>> /\ IsRateLimit(failures[1]) THEN 1 ELSE 0)
        /\ builder.pc = "request" => builder.attempt = 1 + builder.backoffs
        /\ (failures # <<>> /\ ~IsRateLimit(failures[1])) =>
              Len(failures) = 1 /\ propagated
        /\ Len(failures) = 2 => propagated

(***************************************************************************)
(* order_points on the vertices of a quadrilateral.                        *)
(***************************************************************************)
\* image_utils.py:125: rect = order_points(pts)
order ==
    /\ pts # <<>>
    /\ rect = <<>>
    /\ contours = <<>>
    /\ output = NoOutput
    /\ rect' = order_points(pts)
    /\ UNCHANGED <<pts, contours, output, outsideImage>>

InitImage ==
    /\ InitOther
    /\ \A g \in Gateways : gpc[g] = "off"
    /\ user_data = [c \in Chats |-> EmptyUserData]
    /\ objects = <<PyList(<<>>)>>
    /\ json_string = NoText
    /\ pts \in Quadrilaterals
    /\ config = Open
NextImage == order
SpecImage == InitImage /\ [][NextImage]_vars

\* p is the first vertex of pts for which Better(p, q) holds against every
\* vertex q
FirstBest(p, Better(_, _)) ==
    \E i \in DOMAIN pts :
       /\ pts[i] = p
       /\ \A j \in DOMAIN pts : Better(p, pts[j])
       /\ \A j \in DOMAIN pts : j < i => ~Better(pts[j], p)
MinSum(p, q) == p.x + p.y <= q.x + q.y
MaxSum(p, q) == p.x + p.y >= q.x + q.y
MinXY(p, q) == p.x - p.y <= q.x - q.y
MaxXY(p, q) == p.x - p.y >= q.x - q.y

\* C30 as claimed: order_points returns top-left, top-right, bottom-right,
\* bottom-left, where top-left minimizes x+y, bottom-right maximizes x+y,
\* top-right minimizes x-y and bottom-left maximizes x-y
C30_CornersAsClaimed ==
    rect # <<>> =>
       /\ FirstBest(rect[1], MinSum) /\ FirstBest(rect[3], MaxSum)
       /\ FirstBest(rect[2], MinXY) /\ FirstBest(rect[4], MaxXY)
\* C30: order_points returns four vertices of pts: the first that
\* minimizes x+y, the first that maximizes x-y (top-right: it minimizes
\* y-x), the first that maximizes x+y and the first that minimizes x-y
\* (bottom-left: it maximizes y-x)
C30_CornersByDifference ==
    rect # <<>> =>
       /\ Len(rect) = 4
       /\ FirstBest(rect[1], MinSum) /\ FirstBest(rect[3], MaxSum)
       /\ FirstBest(rect[2], MaxXY) /\ FirstBest(rect[4], MinXY)
\* C30 witness: the corners of an axis-parallel rectangle, given in another
\* order, come out as top-left, top-right, bottom-right, bottom-left
C30_Witness ==
    /\ pts = <<[x |-> MaxCoord, y |-> MaxCoord], [x |-> 0, y |-> 1],
               [x |-> MaxCoord, y |-> 1], [x |-> 0, y |-> MaxCoord]>>
    /\ rect = <<[x |-> 0, y |-> 1], [x |-> MaxCoord, y |-> 1],
                [x |-> MaxCoord, y |-> MaxCoord], [x |-> 0, y |-> MaxCoord]>>

(***************************************************************************)
(* The list build returns.                                                 *)
(***************************************************************************)
\* build returned a list
ReturnedList ==
    /\ builder.pc = "done" /\ builder.outcome.kind = "return"
    /\ builder.outcome.value.type = "list"

\* C34: every record of a list that build returns has the four numeric
\* values under their display names and none under a field name, and a
\* stage-2 result with a record that lacks one of the four values is never
\* returned as a list.
C34_ReturnedRecordsRenamed ==
    /\ ReturnedList =>
          /\ ~LacksNumeric
          /\ Len(builder.outcome.value.items) = Len(builder.result.items)
          /\ \A i \in DOMAIN builder.outcome.value.items :
                LET item == builder.outcome.value.items[i] IN
                    /\ \A k \in DOMAIN NumericAliases :
                          /\ Has(item, NumericAliases[k])
                          /\ Get(item, NumericAliases[k])
                                = Get(builder.result.items[i], NumericFields[k])
                    /\ \A k \in DOMAIN NumericFields : ~Has(item, NumericFields[k])
    /\ (builder.pc = "done" /\ builder.stage = 3 /\ LacksNumeric) => ~ReturnedList
\* C34 witness: build returned a list of at least one record
C34_Witness ==
    /\ ReturnedList
    /\ builder.outcome.value.items # <<>>
    /\ builder.status = <<"ok", "ok">>

(***************************************************************************)
(* The order of the steps of handle_message.                               *)
(***************************************************************************)
\* the task has a reply to publish: its delivery carries reply_to and its
\* pipeline run returned
OwesReply(t) == t.msg.reply_to # NoName /\ t.result # PyNone
\* the step acknowledges the delivery of task i of Worker w
Acknowledges(w, i) ==
    /\ tasks[w][i].pc = "exit" /\ ~tasks[w][i].exc
    /\ tasks'[w] = RemoveAt(tasks[w], i)
    /\ acks'[JobOf(tasks[w][i].msg.correlation_id)]
          = acks[JobOf(tasks[w][i].msg.correlation_id)] + 1
\* the step is a failed publish of task i of Worker w
PublishFails(w, i) ==
    /\ tasks[w][i].pc = "publish"
    /\ Len(tasks'[w]) = Len(tasks[w])
    /\ tasks'[w][i].sent = "failed"

\* C37: a delivery that carries reply_to and whose pipeline run returned is
\* acknowledged only after the publish of its reply was made or failed, the
\* publish only after the run; a failed publish sends no reply and leaves
\* the task on its way to the acknowledgment.
C37_RunPublishAck ==
    /\ [](\A w \in Workers : \A i \in DOMAIN tasks[w] :
             LET t == tasks[w][i] IN
                 /\ t.pc \in {"start", "building", "publish"} => t.sent = "no"
                 /\ t.pc = "publish" => OwesReply(t)
                 /\ (t.pc = "exit" /\ OwesReply(t)) => t.sent \in {"yes", "failed"}
                 /\ t.sent = "failed" => ~t.exc)
    /\ [][\A w \in Workers :
             /\ acks' # acks /\ tasks'[w] # tasks[w] =>
                   \E i \in DOMAIN tasks[w] :
                      /\ Acknowledges(w, i)
                      /\ OwesReply(tasks[w][i]) => tasks[w][i].sent \in {"yes", "failed"}
             /\ \A i \in DOMAIN tasks[w] :
                   PublishFails(w, i) =>
                      /\ replies' = replies /\ callback_queue' = callback_queue
                      /\ acks' = acks
                      /\ tasks'[w][i].pc = "exit" /\ ~tasks'[w][i].exc]_vars
\* C37 witness: a job whose run returned once, whose reply publish failed
\* and whose delivery was acknowledged
C37_Witness ==
    \E g \in Gateways :
       /\ runs[g] = 1 /\ ~raised[g] /\ replies[g] = 0
       /\ acks[g] = 1 /\ rejects[g] = 0 /\ requeues[g] = 0

(***************************************************************************)
(* The bot with an allow-list.                                             *)
(***************************************************************************)
InitAccess ==
    /\ InitOther
    /\ \A g \in Gateways : gpc[g] = "off"
    /\ user_data = [c \in Chats |-> EmptyUserData]
    /\ objects = <<PyList(<<>>)>>
    /\ json_string = NoText
    /\ pts = <<>>
    /\ config \in Configs
NextAccess == \E c \in Chats : prompt_disallowed(c) \/ ChatStep(c)
SpecAccess == InitAccess /\ [][NextAccess]_vars

\* the user id is one of the comma-separated ids of the setting
Listed(setting, user_id) ==
    \E i \in DOMAIN split[setting] : split[setting][i].s = str(user_id)
\* the sender may use the bot, as the claim has it
AllowedAsClaimed(settings, user_id) ==
    \/ settings.allowed_user_ids = "*"
    \/ settings.admin_user_ids # "-" /\ Listed(settings.admin_user_ids, user_id)
    \/ Listed(settings.allowed_user_ids, user_id)
\* the step publishes a job
Publishes == submissions' # submissions
\* the step handles a message of the sender c that is turned away
TurnedAway(c) ==
    ~is_allowed(config, c) /\ replied[c] # "disallowed" /\ replied'[c] = "disallowed"

\* C38 as claimed: is_allowed is true exactly when the allow-list is "*", or
\* the sender is in the admin id list, or the sender is one of the
\* comma-separated ids of the allow-list; and a message of a sender for whom
\* it is false publishes no job and changes no correction session.
C38_AllowedIffListed ==
    /\ [](\A c \in Chats : is_allowed(config, c) = AllowedAsClaimed(config, c))
    /\ [][\A c \in Chats :
             TurnedAway(c) =>
                ~Publishes /\ user_data' = user_data /\ objects' = objects]_vars

(***************************************************************************)
(* Messages while a correction is awaited.                                 *)
(***************************************************************************)
\* the step answers c with the request to enter a value
AskedForValue(c) == replied[c] # "enter a value" /\ replied'[c] = "enter a value"

\* C32: while a conversation awaits a correction, no message of it starts a
\* submission (nothing new waits in send_and_receive for it), and a message
\* without text is answered with the request to enter a value and leaves
\* the session, its records and the flag as they are.
C32_AwaitingConsumesMessages ==
    [][\A c \in Chats :
          /\ user_data[c].awaiting_correction => waiting'[c] <= waiting[c]
          /\ AskedForValue(c) =>
                /\ user_data[c].awaiting_correction
                /\ user_data' = user_data /\ objects' = objects
                /\ submissions' = submissions /\ waiting' = waiting
                /\ answers' = answers /\ offered' = offered /\ database' = database]_vars
\* C32 witness: a message without text came after the first answer of a
\* session that needs more, and the cursor still is 1
C32_Witness ==
    \E c \in Chats :
       /\ replied[c] = "enter a value"
       /\ user_data[c].awaiting_correction
       /\ user_data[c].corrections.present
       /\ user_data[c].corrections.current_index = 1
       /\ Len(answers[c]) = 1

(***************************************************************************)
(* The shape of an open correction session.                                *)
(***************************************************************************)
\* c is flagged as awaiting a correction and has a session
Open_(c) == user_data[c].awaiting_correction /\ user_data[c].corrections.present
\* the queue of the session of c is not empty, the cursor is inside it, and
\* every entry names a record of the session's list and a field of it
WellFormed(c) ==
    LET session == user_data[c].corrections
        entries == objects[session.entries]
    IN  /\ session.queue # <<>>
        /\ 0 <= session.current_index
        /\ session.current_index < Len(session.queue)
        /\ \A a \in DOMAIN session.queue :
              /\ session.queue[a][1] + 1 \in DOMAIN entries.items
              /\ Has(entries.items[session.queue[a][1] + 1], session.queue[a][2])
\* the step takes an answer of c
TakesAnswer(c) == Len(answers'[c]) = Len(answers[c]) + 1

\* C33 as claimed: whenever a conversation is flagged as awaiting a
\* correction and has a session, the session is well formed, and its cursor
\* changes only by +1, with an accepted answer.
C33_SessionWellFormed ==
    /\ [](\A c \in Chats : Open_(c) => WellFormed(c))
    /\ [][\A c \in Chats :
             (Open_(c) /\ user_data'[c].corrections.current_index
                             # user_data[c].corrections.current_index) =>
                /\ user_data'[c].corrections.current_index
                      = user_data[c].corrections.current_index + 1
                /\ TakesAnswer(c)]_vars

(***************************************************************************)
(* Presses of the buttons of one offer, with the updates of                *)
(* concurrent_updates(True) interleaved at the awaits of button_callback.  *)
(***************************************************************************)
PressStep(c) ==
    \/ prompt_submit(c)
    \/ prompt_response(c)
    \/ prompt_answer(c)
    \/ prompt_no_text(c)
    \/ button_callback_sent(c)
    \/ button_callback_pop(c)
    \/ button_callback_edit(c)

NextPress == \E c \in Chats : PressStep(c)

SpecPress == InitBuild /\ [][NextPress]_vars

C36_VerdictWithoutHistory ==
    /\ verdict # "none" =>
          ((verdict = "accepted") <=> OperationEntry_valid(entry, LoadedEntities))
    /\ \A d \in Candidates :
          OperationEntry_valid(d, allowed_entities) <=> OperationEntry_valid(d, LoadedEntities)

\* a record was rejected after an earlier validation had changed the lists
C36_Witness ==
    /\ validations = MaxValidations
    /\ verdict = "rejected"
    /\ Len(allowed_entities.type) > Len(LoadedEntities.type) + 1

(***************************************************************************)
(* preprocess_image on the contours of one image.                          *)
(***************************************************************************)
\* image_utils.py:78-179; a warp to a size without pixels is left to OpenCV
preprocess_image(found) ==
    /\ output = NoOutput
    /\ contours' = found
    /\ IF filtered_contours(found) # <<>>
          THEN /\ pts' = corners(filtered_contours(found))
               /\ rect' = order_points(pts')
               /\ IF max_width(rect') = 0 \/ max_height(rect') = 0
                     THEN output' \in {Raised, Warped(rect')}
                     ELSE output' = Warped(rect')
          ELSE /\ output' = Binarized
               /\ UNCHANGED <<pts, rect>>
    /\ UNCHANGED outsideImage

NextRectify == \E found \in Images : preprocess_image(found)
SpecRectify == InitBuild /\ [][NextRectify]_vars

\* a contour of the image passes the area filter and has four vertices
HasLargeQuadrilateral ==
    \E i \in DOMAIN contours : Large(contours[i]) /\ Len(contours[i].approx) = 4
\* a contour of the image passes the area filter
HasLarge == \E i \in DOMAIN contours : Large(contours[i])

\* C31 as claimed: for an image without a contour that has four vertices and
\* more than 10% of the image area, preprocess_image does not warp and
\* returns the binarized image in the original geometry, without raising
C31_NoQuadrilateralNoWarp ==
    (output # NoOutput /\ ~HasLargeQuadrilateral) => output = Binarized

\* C31 amended: preprocess_image skips the warp exactly when no contour
\* passes the area filter, and then returns the binarized image in the
\* original geometry; when contours pass and none has four vertices it warps
\* from the corners of the bounding box of the largest one, to the size of
\* that box; in both cases it returns
C31_NoLargeContourNoWarp ==
    output # NoOutput =>
       /\ ~HasLarge => output = Binarized
       /\ HasLarge => output.warped \/ output.status = "raised"
       /\ (HasLarge /\ ~HasLargeQuadrilateral) =>
             LET box == boundingRect(largest_contour(filtered_contours(contours)).approx)
             IN  /\ output = Warped(rect)
                 /\ output.width = box.w /\ output.height = box.h
                 /\ rect = <<Pt(box.x, box.y), Pt(box.x + box.w, box.y),
                             Pt(box.x + box.w, box.y + box.h), Pt(box.x, box.y + box.h)>>

\* an image whose only large contour is a triangle came out warped, smaller
\* than the image
C31_Witness ==
    /\ output.warped
    /\ HasLarge /\ ~HasLargeQuadrilateral
    /\ output.height < Side

====
